---------------------------- MODULE Spec2Model ----------------------------
(***************************************************************************)
(* The ferry assistant (FerryChatComponent) in its two variants, the       *)
(* baseline component and the location-aware component, as a state         *)
(* machine: React state, the values captured by the last render, the       *)
(* dataset load, and every sendMessage invocation in flight.               *)
(*                                                                         *)
(* A text is a sequence of one-character strings, so that lowercasing,     *)
(* splitting, stripping and substring search are computed as the code      *)
(* computes them.                                                          *)
(***************************************************************************)
EXTENDS Integers, Sequences, FiniteSets, TLC

\* an absent record (null, undefined), an absent text, an absent geometry
NULL == [ null |-> TRUE ]
ABSENT == << "<absent>" >>
NoGeometry == << >>

(***************************************************************************)
(* Characters and JavaScript string primitives                            *)
(***************************************************************************)
Uppers == << "A","B","C","D","E","F","G","H","I","J","K","L","M",
             "N","O","P","Q","R","S","T","U","V","W","X","Y","Z" >>
Lowers == << "a","b","c","d","e","f","g","h","i","j","k","l","m",
             "n","o","p","q","r","s","t","u","v","w","x","y","z" >>
Digits == { "0","1","2","3","4","5","6","7","8","9" }

IsUpper(c) == \E i \in 1..26 : Uppers[i] = c
IsLower(c) == \E i \in 1..26 : Lowers[i] = c
IsDigit(c) == c \in Digits
\* the characters the regular expression \s matches
IsSpace(c) == c \in { " ", "\t", "\n" }

\* String.prototype.toLowerCase / toUpperCase on one character
LowerChar(c) == IF IsUpper(c) THEN Lowers[CHOOSE i \in 1..26 : Uppers[i] = c] ELSE c
UpperChar(c) == IF IsLower(c) THEN Uppers[CHOOSE i \in 1..26 : Lowers[i] = c] ELSE c

toLowerCase(s) == [i \in 1..Len(s) |-> LowerChar(s[i])]

\* String.prototype.trim
RECURSIVE TrimLeft(_)
TrimLeft(s) == IF s # << >> /\ IsSpace(Head(s)) THEN TrimLeft(Tail(s)) ELSE s
RECURSIVE TrimRight(_)
TrimRight(s) ==
  IF s # << >> /\ IsSpace(s[Len(s)]) THEN TrimRight(SubSeq(s, 1, Len(s) - 1)) ELSE s
trim(s) == TrimRight(TrimLeft(s))

\* String.prototype.includes
includes(hay, needle) ==
  \E i \in 0..(Len(hay) - Len(needle)) : SubSeq(hay, i + 1, i + Len(needle)) = needle

\* text.split(/\s+/): the pieces between maximal whitespace runs; a leading or
\* trailing run leaves an empty piece, and the empty text gives one empty piece
RECURSIVE SplitFrom(_, _, _, _)
SplitFrom(s, i, cur, inRun) ==
  IF i > Len(s) THEN << cur >>
  ELSE IF IsSpace(s[i])
       THEN IF inRun THEN SplitFrom(s, i + 1, cur, TRUE)
            ELSE << cur >> \o SplitFrom(s, i + 1, << >>, TRUE)
       ELSE SplitFrom(s, i + 1, Append(cur, s[i]), FALSE)
splitWs(s) == SplitFrom(s, 1, << >>, FALSE)

\* Array.prototype.filter, slice(0, n), and Array.from(new Set(a))
slice0(s, n) == SubSeq(s, 1, IF Len(s) < n THEN Len(s) ELSE n)
Range(s) == { s[i] : i \in 1..Len(s) }
RECURSIVE Dedup(_, _)
Dedup(s, seen) ==
  IF s = << >> THEN << >>
  ELSE IF Head(s) \in seen THEN Dedup(Tail(s), seen)
       ELSE << Head(s) >> \o Dedup(Tail(s), seen \cup { Head(s) })
IsPrefix(s, t) == Len(s) <= Len(t) /\ SubSeq(t, 1, Len(s)) = s

(***************************************************************************)
(* Keyword Extractor: getKeywords                                          *)
(***************************************************************************)
\* the two components: the baseline one and the location-aware one
Variants == { "baseline", "location" }

specificTermsBaseline ==
  << << "i", "k", "o", "r", "o", "d", "u" >>,
     << "a", "p", "a", "p", "a" >>,
     << "b", "a", "d", "a", "g", "r", "y" >>,
     << "c", "m", "s" >>,
     << "f", "a", "l", "o", "m", "o" >>,
     << "l", "a", "g", "o", "s", " ", "i", "s", "l", "a", "n", "d" >>,
     << "l", "e", "k", "k", "i" >>,
     << "v", "i", "c", "t", "o", "r", "i", "a", " ", "i", "s", "l", "a", "n", "d" >>,
     << "e", "t", "i", "-", "o", "s", "a" >>,
     << "f", "a", "r", "e" >>,
     << "s", "c", "h", "e", "d", "u", "l", "e" >>,
     << "r", "o", "u", "t", "e" >>,
     << "j", "e", "t", "t", "y" >>,
     << "d", "e", "p", "a", "r", "t", "u", "r", "e" >>,
     << "h", "o", "u", "r" >>,
     << "t", "i", "m", "e" >>,
     << "e", "b", "u", "t", "e" >>,
     << "e", "r", "o" >>,
     << "i", "b", "b" >> >>
specificTermsLocation ==
  specificTermsBaseline \o
  << << "n", "e", "a", "r", "e", "s", "t" >>,
     << "n", "e", "a", "r" >>,
     << "c", "l", "o", "s", "e" >>,
     << "c", "l", "o", "s", "e", "s", "t" >> >>
specificTerms(variant) ==
  IF variant = "baseline" THEN specificTermsBaseline ELSE specificTermsLocation

\* word.replace(/[^a-z0-9]/g, '')
IsAlnumLower(c) == IsLower(c) \/ IsDigit(c)
stripNonAlnum(w) == SelectSeq(w, IsAlnumLower)

\* isNaN(parseInt(word)) for a word of [a-z0-9]: parseInt reads the leading
\* digits and is NaN exactly when there is none
parseIntIsNaN(w) == w = << >> \/ ~IsDigit(Head(w))

\* A faulty variant of cleanedWords, against which C20 is validated: words
\* of two characters pass the length filter.
cleanedWordsFromTwo(text) ==
  LET raw == splitWs(toLowerCase(text))
      stripped == [i \in 1..Len(raw) |-> stripNonAlnum(raw[i])]
  IN SelectSeq(stripped, LAMBDA w : Len(w) > 1)

\* the words of the lowercased text, stripped, longer than 2
cleanedWords(text) ==
  LET raw == splitWs(toLowerCase(text))
      stripped == [i \in 1..Len(raw) |-> stripNonAlnum(raw[i])]
  IN SelectSeq(stripped, LAMBDA w : Len(w) > 2)

\* word.length > 1 && word[0] === word[0].toUpperCase()
startsUpper(w) == Len(w) > 1 /\ w[1] = UpperChar(w[1])
properNouns(text) ==
  LET caps == SelectSeq(splitWs(text), startsUpper)
  IN [i \in 1..Len(caps) |-> toLowerCase(caps[i])]

keepWord(variant, w) == w \in Range(specificTerms(variant)) \/ parseIntIsNaN(w)

MaxKeywords == 10

\* A faulty variant of the extractor, against which C12 is validated: the
\* found keywords are truncated without being deduplicated.
getKeywordsNoDedup(variant, text) ==
  LET foundKeywords == SelectSeq(cleanedWords(text), LAMBDA w : keepWord(variant, w))
                       \o properNouns(text)
  IN slice0(foundKeywords, MaxKeywords)

getKeywords(variant, text) ==
  LET foundKeywords == SelectSeq(cleanedWords(text), LAMBDA w : keepWord(variant, w))
                       \o properNouns(text)
  IN slice0(Dedup(foundKeywords, {}), MaxKeywords)

(***************************************************************************)
(* Query Classifier: isNearestJettyQuery                                   *)
(***************************************************************************)
nearbyKeywords ==
  << << "n", "e", "a", "r", "e", "s", "t" >>,
     << "n", "e", "a", "r" >>,
     << "c", "l", "o", "s", "e" >>,
     << "c", "l", "o", "s", "e", "s", "t" >>,
     << "a", "r", "o", "u", "n", "d" >>,
     << "n", "e", "a", "r", "b", "y" >> >>
jettyKeywords ==
  << << "j", "e", "t", "t", "y" >>,
     << "j", "e", "t", "t", "i", "e", "s" >>,
     << "t", "e", "r", "m", "i", "n", "a", "l" >>,
     << "s", "t", "o", "p" >>,
     << "s", "t", "a", "t", "i", "o", "n" >> >>
\* A faulty variant of the classifier, against which C14 is validated: the
\* text is searched as typed.
isNearestJettyQueryAsTyped(text) ==
  /\ \E i \in 1..Len(nearbyKeywords) : includes(text, nearbyKeywords[i])
  /\ \E i \in 1..Len(jettyKeywords) : includes(text, jettyKeywords[i])

isNearestJettyQuery(text) ==
  LET textLower == toLowerCase(text)
  IN /\ \E i \in 1..Len(nearbyKeywords) : includes(textLower, nearbyKeywords[i])
     /\ \E i \in 1..Len(jettyKeywords) : includes(textLower, jettyKeywords[i])

(***************************************************************************)
(* Dataset.  A property value is a string or something else (a number);   *)
(* a jetty has its property values and its geometry.coordinates           *)
(* <<longitude, latitude>> (NoGeometry when the feature carries none); a  *)
(* route has its own property values and properties.operator, NULL or a   *)
(* record whose Public and Private are NULL or hold the operator's values.*)
(***************************************************************************)
Str(s) == [type |-> "string", value |-> s]
Num(n) == [type |-> "number", value |-> n]

\* Number.prototype.toString for a natural number
RECURSIVE numberText(_)
numberText(n) ==
  IF n < 10 THEN << CHOOSE d \in Digits : d = ToString(n) >>
  ELSE numberText(n \div 10) \o numberText(n % 10)

\* A faulty variant of the value test, against which C11 is validated: a
\* value that is not a string is converted instead of skipped.
valueMatchesAnyType(value, keywords) ==
  LET text == IF value.type = "string" THEN value.value ELSE numberText(value.value)
  IN \E k \in 1..Len(keywords) : includes(toLowerCase(text), keywords[k])

\* typeof value === 'string' && keywords.some(kw => value.toLowerCase().includes(kw))
valueMatches(value, keywords) ==
  /\ value.type = "string"
  /\ \E k \in 1..Len(keywords) : includes(toLowerCase(value.value), keywords[k])

\* Object.values(obj).some(...)
someValueMatches(values, keywords) ==
  \E i \in 1..Len(values) : valueMatches(values[i], keywords)

jettyMatches(jetty, keywords) == someValueMatches(jetty.properties, keywords)

routeMatches(route, keywords) ==
  \/ someValueMatches(route.properties, keywords)
  \/ /\ route.operator # NULL
     /\ \/ /\ route.operator.Public # NULL
           /\ someValueMatches(route.operator.Public.values, keywords)
        \/ /\ route.operator.Private # NULL
           /\ someValueMatches(route.operator.Private.values, keywords)

SAMPLE_ITEMS == 3
MAX_ITEMS_BASELINE == 15
MAX_ITEMS_LOCATION == 8
MAX_ITEMS(variant) ==
  IF variant = "baseline" THEN MAX_ITEMS_BASELINE ELSE MAX_ITEMS_LOCATION

\* Faulty variants of the scoper, against which C8, C9 and C10 are validated:
\* one forgets the cap of the keyword path, one samples with the cap of the
\* keyword path, one falls back to the sample when nothing matches.
filterDataByKeywordsUncapped(variant, data, keywords) ==
  IF Len(keywords) = 0
  THEN [ jetties  |-> slice0(data.jetties, SAMPLE_ITEMS),
         routes   |-> slice0(data.routes, SAMPLE_ITEMS),
         isSample |-> TRUE ]
  ELSE [ jetties  |-> SelectSeq(data.jetties, LAMBDA j : jettyMatches(j, keywords)),
         routes   |-> SelectSeq(data.routes, LAMBDA r : routeMatches(r, keywords)),
         isSample |-> FALSE ]

filterDataByKeywordsWideSample(variant, data, keywords) ==
  IF Len(keywords) = 0
  THEN [ jetties  |-> slice0(data.jetties, MAX_ITEMS(variant)),
         routes   |-> slice0(data.routes, MAX_ITEMS(variant)),
         isSample |-> TRUE ]
  ELSE [ jetties  |-> slice0(SelectSeq(data.jetties, LAMBDA j : jettyMatches(j, keywords)),
                             MAX_ITEMS(variant)),
         routes   |-> slice0(SelectSeq(data.routes, LAMBDA r : routeMatches(r, keywords)),
                             MAX_ITEMS(variant)),
         isSample |-> FALSE ]

filterDataByKeywordsFallback(variant, data, keywords) ==
  LET filteredJetties == SelectSeq(data.jetties, LAMBDA j : jettyMatches(j, keywords))
      filteredRoutes  == SelectSeq(data.routes, LAMBDA r : routeMatches(r, keywords))
  IN IF Len(keywords) = 0 \/ (filteredJetties = << >> /\ filteredRoutes = << >>)
     THEN [ jetties  |-> slice0(data.jetties, SAMPLE_ITEMS),
            routes   |-> slice0(data.routes, SAMPLE_ITEMS),
            isSample |-> TRUE ]
     ELSE [ jetties  |-> slice0(filteredJetties, MAX_ITEMS(variant)),
            routes   |-> slice0(filteredRoutes, MAX_ITEMS(variant)),
            isSample |-> FALSE ]

filterDataByKeywords(variant, data, keywords) ==
  IF Len(keywords) = 0
  THEN [ jetties  |-> slice0(data.jetties, SAMPLE_ITEMS),
         routes   |-> slice0(data.routes, SAMPLE_ITEMS),
         isSample |-> TRUE ]
  ELSE LET filteredJetties == SelectSeq(data.jetties, LAMBDA j : jettyMatches(j, keywords))
           filteredRoutes  == SelectSeq(data.routes, LAMBDA r : routeMatches(r, keywords))
       IN [ jetties  |-> slice0(filteredJetties, MAX_ITEMS(variant)),
            routes   |-> slice0(filteredRoutes, MAX_ITEMS(variant)),
            isSample |-> FALSE ]

(***************************************************************************)
(* Geospatial Distance Utility and Proximity Ranking.  The coordinates of *)
(* the model are whole degrees on one meridian, where the haversine       *)
(* formula reduces to R * |lat2 - lat1| * PI / 180; the distance is kept  *)
(* in metres, PI taken as 3142 / 1000.                                    *)
(***************************************************************************)
EARTH_RADIUS_KM == 6371
Abs(x) == IF x < 0 THEN -x ELSE x
calculateDistance(lat1, lon1, lat2, lon2) ==
  (EARTH_RADIUS_KM * 3142 * Abs(lat2 - lat1)) \div 180

\* jetty.geometry.coordinates[...] throws a TypeError when the feature has no geometry
hasGeometry(jetty) == jetty.geometry # NoGeometry

withDistance(userLocation, jetty) ==
  [ properties |-> jetty.properties,
    geometry   |-> jetty.geometry,
    distance   |-> calculateDistance(userLocation.latitude, userLocation.longitude,
                                     jetty.geometry[2], jetty.geometry[1]) ]

\* A faulty variant of the sort, against which C15 is validated: an element
\* is placed before the elements at the same distance.
RECURSIVE insertBeforeEqual(_, _)
insertBeforeEqual(sorted, x) ==
  IF sorted = << >> THEN << x >>
  ELSE IF x.distance <= Head(sorted).distance THEN << x >> \o sorted
       ELSE << Head(sorted) >> \o insertBeforeEqual(Tail(sorted), x)

\* Array.prototype.sort((a, b) => a.distance - b.distance): a stable sort
RECURSIVE insertByDistance(_, _)
insertByDistance(sorted, x) ==
  IF sorted = << >> THEN << x >>
  ELSE IF x.distance < Head(sorted).distance THEN << x >> \o sorted
       ELSE << Head(sorted) >> \o insertByDistance(Tail(sorted), x)
RECURSIVE sortByDistance(_)
sortByDistance(s) ==
  IF s = << >> THEN << >>
  ELSE insertByDistance(sortByDistance(SubSeq(s, 1, Len(s) - 1)), s[Len(s)])

NEAREST_COUNT == 5

findNearestJetties(userLocation, jetties, count) ==
  LET jettiesWithDistance == [i \in 1..Len(jetties) |-> withDistance(userLocation, jetties[i])]
  IN slice0(sortByDistance(jettiesWithDistance), count)

(***************************************************************************)
(* Assistant Orchestrator: the prompt and the mapping of the generation    *)
(* service's answer to a transcript entry.  An emoji is written as the one *)
(* character "@".  The prompt template is kept as a record of the parts    *)
(* the code interpolates into it.                                          *)
(***************************************************************************)
\* dataLabel of the keyword path
keywordLabel(filteredData, keywords) ==
  IF filteredData.isSample
  THEN [ kind |-> "Sampled", jetties |-> SAMPLE_ITEMS, routes |-> SAMPLE_ITEMS,
         keywords |-> << >> ]
  ELSE [ kind |-> "Filtered", jetties |-> Len(filteredData.jetties),
         routes |-> Len(filteredData.routes), keywords |-> keywords ]

keywordPrompt(variant, ferryData, currentInput) ==
  LET keywords     == getKeywords(variant, currentInput)
      filteredData == filterDataByKeywords(variant, ferryData, keywords)
  IN [ dataLabel    |-> keywordLabel(filteredData, keywords),
       jetties      |-> filteredData.jetties,
       routes       |-> filteredData.routes,
       locationNote |-> FALSE,
       question     |-> currentInput ]

locationPrompt(nearestJetties, currentInput) ==
  [ dataLabel    |-> [ kind |-> "Location-Based", jetties |-> Len(nearestJetties),
                       routes |-> 0, keywords |-> << >> ],
    jetties      |-> nearestJetties,
    routes       |-> << >>,
    locationNote |-> TRUE,
    question     |-> currentInput ]

R_SAFETY       == << "S", "A", "F", "E", "T", "Y" >>
T_ApiError     == << "G", "e", "m", "i", "n", "i", " ", "A", "P", "I", " ", "E", "r", "r", "o", "r", ":", " " >>
T_UnknownApi   == << "A", "n", " ", "u", "n", "k", "n", "o", "w", "n", " ", "A", "P", "I", " ", "e", "r", "r", "o", "r", " ", "o", "c", "c", "u", "r", "r", "e", "d", "." >>
T_Safety       == << "A", "I", " ", "r", "e", "s", "p", "o", "n", "s", "e", " ", "w", "a", "s", " ", "b", "l", "o", "c", "k", "e", "d", " ", "d", "u", "e", " ", "t", "o", " ", "s", "a", "f", "e", "t", "y", " ", "s", "e", "t", "t", "i", "n", "g", "s", "." >>
T_InvalidPre   == << "I", "n", "v", "a", "l", "i", "d", " ", "o", "r", " ", "i", "n", "c", "o", "m", "p", "l", "e", "t", "e", " ", "r", "e", "s", "p", "o", "n", "s", "e", " ", "f", "r", "o", "m", " ", "A", "I", ".", " ", "F", "i", "n", "i", "s", "h", " ", "R", "e", "a", "s", "o", "n", ":", " " >>
T_Unknown      == << "U", "n", "k", "n", "o", "w", "n" >>
T_SorryPre     == << "S", "o", "r", "r", "y", ",", " ", "I", " ", "c", "a", "n", "'", "t", " ", "a", "n", "s", "w", "e", "r", " ", "r", "i", "g", "h", "t", " ", "n", "o", "w", ".", " ", "E", "r", "r", "o", "r", ":", " " >>
T_SorryPost    == << " ", "@" >>
T_UnknownError == << "U", "n", "k", "n", "o", "w", "n", " ", "e", "r", "r", "o", "r", "." >>
T_PermissionNotice ==
  << "@", " ", "T", "o", " ", "f", "i", "n", "d", " ", "t", "h", "e", " ", "n", "e", "a", "r", "e", "s", "t", " ", "j", "e", "t", "t", "y", ",", " ", "I", " ", "n", "e", "e", "d", " ", "a", "c", "c", "e", "s", "s", " ", "t", "o", " ", "y", "o", "u", "r", " ", "l", "o", "c", "a", "t", "i", "o", "n", ".", " ", "P", "l", "e", "a", "s", "e", " ", "a", "l", "l", "o", "w", " ", "l", "o", "c", "a", "t", "i", "o", "n", " ", "a", "c", "c", "e", "s", "s", "." >>
T_LocationFailure ==
  << "@", " ", "I", " ", "c", "o", "u", "l", "d", "n", "'", "t", " ", "a", "c", "c", "e", "s", "s", " ", "y", "o", "u", "r", " ", "l", "o", "c", "a", "t", "i", "o", "n", ".", " ", "P", "l", "e", "a", "s", "e", " ", "e", "n", "a", "b", "l", "e", " ", "l", "o", "c", "a", "t", "i", "o", "n", " ", "s", "e", "r", "v", "i", "c", "e", "s", " ", "a", "n", "d", " ", "t", "r", "y", " ", "a", "g", "a", "i", "n", "." >>
T_WelcomeBaseline ==
  << "@", " ", "H", "i", "!", " ", "I", "'", "m", " ", "y", "o", "u", "r", " ", "L", "a", "g", "o", "s", " ", "F", "e", "r", "r", "y", " ", "a", "s", "s", "i", "s", "t", "a", "n", "t", ".", " ", "A", "s", "k", " ", "m", "e", " ", "a", "n", "y", "t", "h", "i", "n", "g", " ", "a", "b", "o", "u", "t", " ", "f", "e", "r", "r", "y", " ", "r", "o", "u", "t", "e", "s", ",", " ", "j", "e", "t", "t", "i", "e", "s", ",", " ", "s", "c", "h", "e", "d", "u", "l", "e", "s", ",", " ", "f", "a", "r", "e", "s", ",", " ", "o", "r", " ", "h", "o", "w", " ", "t", "o", " ", "g", "e", "t", " ", "a", "r", "o", "u", "n", "d", " ", "L", "a", "g", "o", "s", " ", "b", "y", " ", "w", "a", "t", "e", "r", "!" >>
T_WelcomeLocation ==
  T_WelcomeBaseline \o
  << "\n", "\n", "@", " ", "T", "r", "y", " ", "a", "s", "k", "i", "n", "g", ":", " ", "\"", "W", "h", "a", "t", "'", "s", " ", "t", "h", "e", " ", "n", "e", "a", "r", "e", "s", "t", " ", "j", "e", "t", "t", "y", " ", "t", "o", " ", "m", "e", "?", "\"" >>

\* x || fallback, for a text x that may be absent (NULL) or empty
orElse(x, fallback) == IF x = ABSENT \/ x = << >> THEN fallback ELSE x

\* A faulty variant of the response handling, against which C4 is validated:
\* the generated text is looked at before the structured error.
handleResponseTextFirst(data) ==
  IF data.text # ABSENT /\ data.text # << >>
  THEN [ kind |-> "reply", message |-> data.text ]
  ELSE IF data.error # NULL
  THEN [ kind |-> "throw",
         message |-> T_ApiError \o orElse(data.error.message, T_UnknownApi) ]
  ELSE IF data.finishReason = R_SAFETY
  THEN [ kind |-> "throw", message |-> T_Safety ]
  ELSE [ kind |-> "throw",
         message |-> T_InvalidPre \o orElse(data.finishReason, T_Unknown) \o << "." >> ]

\* The body of the try block after response.json(): a reply to append, or the
\* message of the Error thrown.  data.error is NULL or a record with message;
\* data.text is candidates[0].content.parts[0].text, data.finishReason is
\* candidates[0].finishReason; ABSENT where the field is absent.
handleResponse(data) ==
  IF data.error # NULL
  THEN [ kind |-> "throw",
         message |-> T_ApiError \o orElse(data.error.message, T_UnknownApi) ]
  ELSE IF data.text # ABSENT /\ data.text # << >>
  THEN [ kind |-> "reply", message |-> data.text ]
  ELSE IF data.finishReason = R_SAFETY
  THEN [ kind |-> "throw", message |-> T_Safety ]
  ELSE [ kind |-> "throw",
         message |-> T_InvalidPre \o orElse(data.finishReason, T_Unknown) \o << "." >> ]

\* A faulty variant of the catch block's text, against which C5 is validated:
\* the description of the exception is left out.
failureTextGeneric(errorMessage) == T_SorryPre \o T_UnknownError \o T_SorryPost

\* the text of the catch block's entry
failureText(errorMessage) ==
  T_SorryPre \o orElse(errorMessage, T_UnknownError) \o T_SorryPost

(***************************************************************************)
(* Markdown-Subset Renderer: parseMarkdown.  A segment has a type ("text", *)
(* "bold" or "link"), a content and, for a link, a url.                    *)
(***************************************************************************)
textSegment(content) == [ type |-> "text", content |-> content, url |-> ABSENT ]
boldSegment(content) == [ type |-> "bold", content |-> content, url |-> ABSENT ]
linkSegment(content, url) == [ type |-> "link", content |-> content, url |-> url ]

\* String.prototype.indexOf(c, from), 0 when c does not occur
RECURSIVE indexOf(_, _, _)
indexOf(s, c, from) ==
  IF from > Len(s) THEN 0
  ELSE IF s[from] = c THEN from
  ELSE indexOf(s, c, from + 1)

noMatch == [ found |-> FALSE ]

\* LINK_REGEX /\[([^\]]+)\]\(([^)]+)\)/ anchored at p: the label runs to the
\* first "]", which "(" must follow, the url runs to the first ")"; both
\* are non-empty
linkAt(s, p) ==
  IF s[p] # "[" THEN noMatch
  ELSE LET q == indexOf(s, "]", p + 1)
       IN IF q < p + 2 \/ q + 1 > Len(s) \/ s[q + 1] # "(" THEN noMatch
          ELSE LET r == indexOf(s, ")", q + 2)
               IN IF r < q + 3 THEN noMatch
                  ELSE [ found |-> TRUE, next |-> r + 1,
                         segment |-> linkSegment(SubSeq(s, p + 1, q - 1),
                                                 SubSeq(s, q + 2, r - 1)) ]

\* BOLD_REGEX /\*\*([^\*]+)\*\*/ anchored at p: the content runs to the first
\* "*", which another "*" must follow; it is non-empty
boldAt(s, p) ==
  IF s[p] # "*" \/ p + 1 > Len(s) \/ s[p + 1] # "*" THEN noMatch
  ELSE LET q == indexOf(s, "*", p + 2)
       IN IF q < p + 3 \/ q + 1 > Len(s) \/ s[q + 1] # "*" THEN noMatch
          ELSE [ found |-> TRUE, next |-> q + 2,
                 segment |-> boldSegment(SubSeq(s, p + 2, q - 1)) ]

matchAt(type, s, p) == IF type = "link" THEN linkAt(s, p) ELSE boldAt(s, p)

\* the while loop over regex.exec(seg.content): p is where the search is,
\* last the position after the previous match
RECURSIVE scanSegment(_, _, _, _)
scanSegment(type, s, p, last) ==
  IF p > Len(s)
  THEN IF last <= Len(s) THEN << textSegment(SubSeq(s, last, Len(s))) >> ELSE << >>
  ELSE LET match == matchAt(type, s, p)
       IN IF match.found
          THEN (IF p > last THEN << textSegment(SubSeq(s, last, p - 1)) >> ELSE << >>)
               \o << match.segment >>
               \o scanSegment(type, s, match.next, match.next)
          ELSE scanSegment(type, s, p + 1, last)

\* A faulty variant of parsePass, against which C24 is validated: the
\* segments of every type are scanned again.
RECURSIVE parsePassRescanning(_, _)
parsePassRescanning(type, segments) ==
  IF segments = << >> THEN << >>
  ELSE scanSegment(type, Head(segments).content, 1, 1)
       \o parsePassRescanning(type, Tail(segments))

\* segments.forEach of one pass: the text segments are scanned, the others kept
RECURSIVE parsePass(_, _)
parsePass(type, segments) ==
  IF segments = << >> THEN << >>
  ELSE (IF Head(segments).type # "text"
        THEN << Head(segments) >>
        ELSE scanSegment(type, Head(segments).content, 1, 1))
       \o parsePass(type, Tail(segments))

\* A faulty variant of the final filter, against which C18 is validated: the
\* content is not trimmed before it is compared.
keepSegmentUntrimmed(s) == s.content # << >> \/ s.type # "text"

\* s => s.content.trim() !== '' || s.type !== 'text'
keepSegment(s) == trim(s.content) # << >> \/ s.type # "text"

parseMarkdown(text) ==
  LET links == parsePass("link", << textSegment(text) >>)
      bolds == parsePass("bold", links)
  IN SelectSeq(bolds, keepSegment)

(***************************************************************************)
(* Bounds and inputs                                                       *)
(***************************************************************************)
\* sendMessage invocations accepted in one session
MaxSends == 2
\* features in the largest dataset: above every cap of the scoper
MaxFeatures == 16

Q_Nearest == << "W", "h", "a", "t", "'", "s", " ", "t", "h", "e", " ", "n", "e", "a", "r", "e", "s", "t", " ", "j", "e", "t", "t", "y", " ", "t", "o", " ", "m", "e", "?" >>
Q_Routes  == << "S", "h", "o", "w", " ", "m", "e", " ", "r", "o", "u", "t", "e", "s", " ", "f", "r", "o", "m", " ", "C", "M", "S" >>
Q_Short   == << "t", "o" >>
Q_NoMatch == << "X", "y", "z", " ", "p", "i", "e", "r" >>
Q_Blank   == << " " >>

\* the quick-action buttons of the location-aware component that the model presses
QuickTexts == { Q_Nearest, Q_Routes }
\* what the user types: in the baseline component every text takes the
\* keyword path, in the location-aware one Q_Nearest takes the proximity path
Inputs(v) == IF v = "baseline" THEN { Q_Blank, Q_Routes } ELSE { Q_Blank, Q_Nearest, Q_Routes }

N_CMS     == << "C", "M", "S" >>
N_Apapa   == << "A", "p", "a", "p", "a" >>
N_Ikorodu == << "I", "k", "o", "r", "o", "d", "u" >>
N_Fare    == << "N", "5", "0", "0", " ", "f", "a", "r", "e" >>
Names     == << N_Apapa, N_CMS, N_Ikorodu >>

(***************************************************************************)
(* The datasets the two sources may serve.  A dataset is immutable once    *)
(* loaded, so the state holds a reference to it: its number of jetties,    *)
(* its number of routes and its kind; features gives what it refers to.    *)
(*   "cms":    every jetty and every route carries the name CMS            *)
(*   "mixed":  the names cycle through Names; the operator records vary    *)
(*   "broken": as mixed, and the second jetty is a feature without geometry*)
(***************************************************************************)
Kinds == { "cms", "mixed", "broken" }
DataRef(nj, nr, kind) == [ nj |-> nj, nr |-> nr, kind |-> kind ]

jettyOf(kind, i) ==
  [ properties |-> << Num(i), Str(IF kind = "cms" THEN N_CMS ELSE Names[(i % 3) + 1]) >>,
    geometry   |-> IF kind = "broken" /\ i = 2 THEN NoGeometry ELSE << 3, i % 4 >> ]

operatorOf(kind, i) ==
  IF kind = "cms" \/ i % 3 = 0
  THEN [ Public |-> [values |-> << Str(N_Fare) >>], Private |-> NULL ]
  ELSE IF i % 3 = 1 THEN NULL
  ELSE [ Public |-> NULL, Private |-> [values |-> << Num(500), Str(N_Fare) >>] ]

routeOf(kind, i) ==
  [ properties |-> << Num(i), Str(IF kind = "cms" THEN N_CMS ELSE Names[(i % 3) + 1]),
                      Str(N_Ikorodu) >>,
    operator   |-> operatorOf(kind, i) ]

features(ref) ==
  [ jetties |-> [i \in 1..ref.nj |-> jettyOf(ref.kind, i)],
    routes  |-> [i \in 1..ref.nr |-> routeOf(ref.kind, i)] ]

\* the datasets of the session model: one above every cap, one below
Datasets == { DataRef(MaxFeatures, MaxFeatures, "cms"), DataRef(2, 1, "broken") }

Locations == { [latitude |-> 0, longitude |-> 3], [latitude |-> 2, longitude |-> 3] }

E_Network  == << "N", "e", "t", "w", "o", "r", "k", " ", "r", "e", "q", "u", "e", "s", "t", " ", "f", "a", "i", "l", "e", "d" >>
E_Parse    == << "J", "S", "O", "N", " ", "P", "a", "r", "s", "e", " ", "e", "r", "r", "o", "r" >>
E_Location == << "L", "o", "c", "a", "t", "i", "o", "n", " ", "u", "n", "a", "v", "a", "i", "l", "a", "b", "l", "e" >>
E_Geometry == << "C", "a", "n", "n", "o", "t", " ", "r", "e", "a", "d", " ", "p", "r", "o", "p", "e", "r", "t", "y", " ", "'", "c", "o", "o", "r", "d", "i", "n", "a", "t", "e", "s", "'", " ", "o", "f", " ", "n", "u", "l", "l" >>
R_Text     == << "T", "a", "k", "e", " ", "*", "*", "C", "M", "S", "*", "*" >>
R_Quota    == << "q", "u", "o", "t", "a", " ", "e", "x", "c", "e", "e", "d", "e", "d" >>
R_Stop     == << "S", "T", "O", "P" >>

\* every combination of the fields the response handling reads
AllBodies ==
  [ error        : { NULL, [message |-> ABSENT], [message |-> R_Quota] },
    text         : { ABSENT, << >>, R_Text },
    finishReason : { ABSENT, R_SAFETY, R_Stop } ]
\* the bodies of the session model: a reply, a structured error, a safety
\* block and an empty body
Bodies ==
  { [error |-> NULL, text |-> R_Text, finishReason |-> R_Stop],
    [error |-> [message |-> R_Quota], text |-> ABSENT, finishReason |-> ABSENT],
    [error |-> NULL, text |-> ABSENT, finishReason |-> R_SAFETY],
    [error |-> NULL, text |-> ABSENT, finishReason |-> ABSENT] }
\* the exceptions of the awaited fetch (a rejection) and of response.json()
Exceptions == { E_Network, E_Parse }

(***************************************************************************)
(* State of FerryChatComponent                                             *)
(***************************************************************************)
VARIABLES
  variant,                    \* which component is mounted
  messages,                   \* useState: the transcript
  inputText,                  \* useState
  loading,                    \* useState: the in-progress flag
  ferryData,                  \* useState: NULL or (a reference to) the dataset
  userLocation,               \* useState: NULL or the last fix
  locationPermissionGranted,  \* useState
  view,                       \* the state values captured by the last render
  loadState,                  \* loadFerryData: "pending", "loaded" or "failed"
  calls,                      \* the sendMessage invocations, in order of acceptance
  alerts,                     \* Alert.alert dialogs raised
  pureIn, pureOut,            \* argument and result of a pure function under check
  markdownText,               \* MarkdownText: the text prop of the rendered message
  selectedJetty,              \* map screen, useState: NULL or the jetty of the details
  selectedRoute,              \* map screen, useState: NULL or the route of the details
  linkQueries,                \* Linking.canOpenURL calls that have not settled
  linkLog,                    \* Linking and console calls, in the order they were made
  now,                        \* Date.now(): the millisecond clock
  fetchPc,                    \* map screen: where fetchData is, or how it ended
  loadedJetties,              \* map screen, useState jetties
  mapLoading,                 \* map screen, useState loading
  mapLocation,                \* map screen, useState location
  filteredJetties,            \* map screen, useState: the jetties drawn on the map
  showFilterDrawer,           \* map screen, useState
  selectedLGAs,               \* filter drawer, useState
  selectedCharterServices     \* filter drawer, useState

vars == << variant, messages, inputText, loading, ferryData, userLocation,
           locationPermissionGranted, view, loadState, calls, alerts,
           pureIn, pureOut, markdownText, selectedJetty, selectedRoute, linkQueries,
           linkLog, now, fetchPc, loadedJetties, mapLoading, mapLocation, filteredJetties,
           showFilterDrawer, selectedLGAs, selectedCharterServices >>

\* the variables of the map screen and of its filter drawer
mapVars == << fetchPc, loadedJetties, mapLoading, mapLocation, filteredJetties,
              showFilterDrawer, selectedLGAs, selectedCharterServices >>

\* the variables of the link handlers
linkVars == << markdownText, selectedJetty, selectedRoute, linkQueries, linkLog >>

\* the values a render captures in the closures of its handlers
snapshot ==
  [ inputText |-> inputText, loading |-> loading, ferryData |-> ferryData,
    userLocation |-> userLocation,
    locationPermissionGranted |-> locationPermissionGranted ]

\* a transcript entry; call is the sendMessage invocation that appended it
\* (0 for the welcome entry); id is Date.now() for a user entry and for the
\* permission notice, Date.now() + 1 for every other entry
Message(text, isUser, isSystemMessage, call) ==
  [ text |-> text, isUser |-> isUser, isSystemMessage |-> isSystemMessage, call |-> call,
    id |-> IF isUser \/ isSystemMessage THEN now ELSE now + 1 ]

\* the welcome entry; its id "welcome" is written 0
welcome(v) ==
  [ text |-> IF v = "baseline" THEN T_WelcomeBaseline ELSE T_WelcomeLocation,
    isUser |-> FALSE, isSystemMessage |-> FALSE, call |-> 0, id |-> 0 ]

\* A faulty variant of the append, against which C6 is validated: an
\* assistant entry replaces the system notices before it.
appendMessageDroppingNotices(prev, m) ==
  IF m.isUser \/ m.isSystemMessage
  THEN Append(prev, m)
  ELSE Append(SelectSeq(prev, LAMBDA e : ~e.isSystemMessage), m)

\* setMessages((prev) => [...prev, m])
appendMessage(prev, m) == Append(prev, m)

InitComponent ==
  /\ variant \in Variants
  /\ now = 1
  /\ messages = << welcome(variant) >>
  /\ inputText = << >>
  /\ loading = FALSE
  /\ ferryData = NULL
  /\ userLocation = NULL
  /\ locationPermissionGranted = FALSE
  /\ view = [ inputText |-> << >>, loading |-> FALSE, ferryData |-> NULL,
              userLocation |-> NULL, locationPermissionGranted |-> FALSE ]
  /\ loadState = "pending"
  /\ calls = << >>
  /\ alerts = 0

\* the map screen as mounted: fetchData under way, the loading view shown
InitMap ==
  /\ fetchPc = "fetching"
  /\ loadedJetties = << >>
  /\ mapLoading = TRUE
  /\ mapLocation = NULL
  /\ filteredJetties = << >>
  /\ showFilterDrawer = FALSE
  /\ selectedLGAs = << >>
  /\ selectedCharterServices = << >>

\* no message is rendered, no jetty selected, no link call made
InitLinking ==
  /\ InitMap
  /\ markdownText = << >>
  /\ selectedJetty = NULL
  /\ selectedRoute = NULL
  /\ linkQueries = << >>
  /\ linkLog = << >>

Init ==
  /\ InitComponent
  /\ InitLinking
  /\ pureIn = NULL
  /\ pureOut = NULL

\* A faulty variant of loadFerryData, against which C7 is validated: the
\* dataset is set although one of the two fetches failed.
loadFerryDataPartial ==
  /\ loadState = "pending"
  /\ \E jettiesOk \in BOOLEAN, routesOk \in BOOLEAN, data \in Datasets :
       IF jettiesOk /\ routesOk
       THEN /\ ferryData' = data
            /\ loadState' = "loaded"
       ELSE /\ ferryData' = IF jettiesOk \/ routesOk THEN data ELSE ferryData
            /\ loadState' = "failed"
  /\ UNCHANGED << variant, messages, inputText, loading, userLocation,
                  locationPermissionGranted, view, calls, alerts, pureIn, pureOut, linkVars, now, mapVars >>

(***************************************************************************)
(* loadFerryData, run once by the mount effect: both fetches and both      *)
(* json() calls succeed and the dataset is set, or one of them fails and   *)
(* the error is only logged.                                               *)
(***************************************************************************)
loadFerryData ==
  /\ loadState = "pending"
  /\ \E jettiesOk \in BOOLEAN, routesOk \in BOOLEAN, data \in Datasets :
       IF jettiesOk /\ routesOk
       THEN /\ ferryData' = data
            /\ loadState' = "loaded"
       ELSE /\ ferryData' = ferryData
            /\ loadState' = "failed"
  /\ UNCHANGED << variant, messages, inputText, loading, userLocation,
                  locationPermissionGranted, view, calls, alerts, pureIn, pureOut, linkVars, now, mapVars >>

\* React re-renders: the handlers are recreated over the current state
Render ==
  /\ view # snapshot
  /\ view' = snapshot
  /\ UNCHANGED << variant, messages, inputText, loading, ferryData, userLocation,
                  locationPermissionGranted, loadState, calls, alerts,
                  pureIn, pureOut, linkVars, now, mapVars >>

\* onChangeText of the input (editable while the rendered flag is off) and
\* the quick-action buttons of the location-aware component
canSetInputText(t) ==
  \/ ~view.loading /\ t \in Inputs(variant)
  \/ variant = "location" /\ t \in QuickTexts

setInputText ==
  /\ \E t \in Inputs(variant) \cup QuickTexts :
       /\ canSetInputText(t)
       /\ inputText' = t
  /\ UNCHANGED << variant, messages, loading, ferryData, userLocation,
                  locationPermissionGranted, view, loadState, calls, alerts,
                  pureIn, pureOut, linkVars, now, mapVars >>

(***************************************************************************)
(* sendMessage.  An invocation runs over the values its render captured    *)
(* (closure); it is suspended at an await with pc "permission" (request-   *)
(* ForegroundPermissionsAsync), "locating" (getCurrentPositionAsync) or    *)
(* "fetching" (the generation fetch), and ends with pc "done".             *)
(***************************************************************************)
\* A faulty variant of the guard, against which C2 is validated: the
\* in-progress flag is not looked at.
sendGuardIgnoresLoading(closure) ==
  /\ trim(closure.inputText) # << >>
  /\ closure.ferryData # NULL

\* if (!inputText.trim() || loading || !ferryData) return;
sendGuard(closure) ==
  /\ trim(closure.inputText) # << >>
  /\ ~closure.loading
  /\ closure.ferryData # NULL

Call(pc, input, closure, prompt, outcome) ==
  [ pc |-> pc, input |-> input, userLocation |-> closure.userLocation,
    ferryData |-> closure.ferryData, prompt |-> prompt, outcome |-> outcome ]
Done(input, outcome) ==
  [ pc |-> "done", input |-> input, userLocation |-> NULL, ferryData |-> NULL,
    prompt |-> NULL, outcome |-> outcome ]

\* A faulty variant of the flag's reset, against which C3 is validated: the
\* flag is cleared on the success path only.
loadingAfterSuccessOnly(outcome) == outcome.kind # "reply"

\* the in-progress flag a finished invocation leaves: setLoading(false) before
\* the early return, and finally { setLoading(false) }
loadingAfter(outcome) == FALSE

\* A faulty variant of the end of handleNearestJettyQuery, against which C16
\* is validated: a missing location is replaced by a default one.
nearestStepDefaultLocation(closure, input) ==
  IF closure.ferryData = NULL
  THEN [ kind |-> "abort" ]
  ELSE LET jetties == features(closure.ferryData).jetties
           location == IF closure.userLocation = NULL
                       THEN [ latitude |-> 0, longitude |-> 0 ]
                       ELSE closure.userLocation
       IN IF \E k \in 1..Len(jetties) : ~hasGeometry(jetties[k])
          THEN [ kind |-> "throw", message |-> E_Geometry ]
          ELSE [ kind |-> "fetch",
                 prompt |-> locationPrompt(
                   findNearestJetties(location, jetties, NEAREST_COUNT), input) ]

\* the end of handleNearestJettyQuery and the code of sendMessage up to the
\* fetch on the proximity path: the null return, the rank, the prompt; a
\* feature without geometry makes findNearestJetties throw
nearestStep(closure, input) ==
  IF closure.ferryData = NULL \/ closure.userLocation = NULL
  THEN [ kind |-> "abort" ]
  ELSE LET jetties == features(closure.ferryData).jetties
       IN IF \E k \in 1..Len(jetties) : ~hasGeometry(jetties[k])
          THEN [ kind |-> "throw", message |-> E_Geometry ]
          ELSE [ kind |-> "fetch",
                 prompt |-> locationPrompt(
                   findNearestJetties(closure.userLocation, jetties, NEAREST_COUNT), input) ]

\* the try block of sendMessage from its start to its first await
contextStep(v, closure, input) ==
  IF v = "location" /\ isNearestJettyQuery(input)
  THEN IF ~(closure.locationPermissionGranted /\ closure.userLocation # NULL)
       THEN [ kind |-> "permission" ]
       ELSE nearestStep(closure, input)
  ELSE [ kind |-> "fetch",
         prompt |-> keywordPrompt(v, features(closure.ferryData), input) ]

setCall(id, c) == IF id > Len(calls) THEN Append(calls, c) ELSE [ calls EXCEPT ![id] = c ]

\* the entry sendMessage appends for a handled body or a caught exception
assistantEntry(i, result) ==
  IF result.kind = "reply"
  THEN Message(result.message, FALSE, FALSE, i)
  ELSE Message(failureText(result.message), FALSE, FALSE, i)

\* the catch block: the failure entry, then finally
caught(id, input, msgs, errorMessage) ==
  LET outcome == [ kind |-> "failure", error |-> errorMessage ]
  IN /\ messages' = appendMessage(msgs,
                      assistantEntry(id, [ kind |-> "throw", message |-> errorMessage ]))
     /\ loading' = loadingAfter(outcome)
     /\ calls' = setCall(id, Done(input, outcome))

\* what invocation id does from a context step on; msgs is the transcript
\* with the entries it has appended so far
proceed(id, input, closure, msgs, step) ==
  IF step.kind = "permission"
  THEN /\ messages' = appendMessage(msgs, Message(T_PermissionNotice, FALSE, TRUE, id))
       /\ loading' = TRUE
       /\ calls' = setCall(id, Call("permission", input, closure, NULL, NULL))
  ELSE IF step.kind = "fetch"
  THEN /\ messages' = msgs
       /\ loading' = TRUE
       /\ calls' = setCall(id, Call("fetching", input, closure, step.prompt, NULL))
  ELSE IF step.kind = "throw"
  THEN caught(id, input, msgs, step.message)
  ELSE LET outcome == [ kind |-> "aborted", error |-> ABSENT ]
       IN /\ messages' = msgs
          /\ loading' = loadingAfter(outcome)
          /\ calls' = setCall(id, Done(input, outcome))

\* the send button's onPress and the input's onSubmitEditing, bound to the
\* sendMessage of the last render
sendMessage ==
  IF ~sendGuard(view)
  THEN UNCHANGED vars
  ELSE /\ Len(calls) < MaxSends
       /\ LET id           == Len(calls) + 1
              currentInput == view.inputText
              withUser     == appendMessage(messages, Message(currentInput, TRUE, FALSE, id))
          IN proceed(id, currentInput, view, withUser,
                     contextStep(variant, view, currentInput))
       /\ inputText' = << >>
       /\ UNCHANGED << variant, ferryData, userLocation, locationPermissionGranted,
                       view, loadState, alerts, pureIn, pureOut, linkVars, now, mapVars >>

\* A faulty variant of the abort, against which C17 is validated: sendMessage
\* returns without clearing the flag.
locationFailedStillLoading(i, thrown) ==
  LET outcome == [ kind |-> "aborted", error |-> thrown ]
  IN /\ messages' = appendMessage(messages, Message(T_LocationFailure, FALSE, FALSE, i))
     /\ loading' = loading
     /\ calls' = [ calls EXCEPT ![i] = Done(calls[i].input, outcome) ]

\* requestLocationPermission returned false, after a denial or after catching
\* and logging an exception (thrown, else ABSENT): handleNearestJettyQuery
\* appends its notice and returns null, sendMessage clears the flag and returns
locationFailed(i, thrown) ==
  LET outcome == [ kind |-> "aborted", error |-> thrown ]
  IN /\ messages' = appendMessage(messages, Message(T_LocationFailure, FALSE, FALSE, i))
     /\ loading' = loadingAfter(outcome)
     /\ calls' = [ calls EXCEPT ![i] = Done(calls[i].input, outcome) ]

\* requestForegroundPermissionsAsync settles
permissionSettles ==
  /\ \E i \in 1..Len(calls) :
       /\ calls[i].pc = "permission"
       /\ \E status \in { "granted", "denied", "throws" } :
            IF status = "granted"
            THEN /\ locationPermissionGranted' = TRUE
                 /\ calls' = [ calls EXCEPT ![i].pc = "locating" ]
                 /\ UNCHANGED << messages, loading, alerts, now, mapVars >>
            ELSE /\ locationFailed(i, IF status = "denied" THEN ABSENT ELSE E_Location)
                 /\ alerts' = IF status = "denied" THEN alerts + 1 ELSE alerts
                 /\ UNCHANGED locationPermissionGranted
  /\ UNCHANGED << variant, inputText, ferryData, userLocation, view, loadState,
                  pureIn, pureOut, linkVars, now, mapVars >>

\* getCurrentPositionAsync settles: with a fix, and handleNearestJettyQuery
\* goes on over the values of its own render, or with an exception
positionSettles ==
  /\ \E i \in 1..Len(calls) :
       /\ calls[i].pc = "locating"
       /\ \E fix \in Locations \cup { NULL } :
            IF fix # NULL
            THEN /\ userLocation' = fix
                 /\ proceed(i, calls[i].input, calls[i], messages,
                            nearestStep(calls[i], calls[i].input))
            ELSE /\ locationFailed(i, E_Location)
                 /\ UNCHANGED userLocation
  /\ UNCHANGED << variant, inputText, ferryData, locationPermissionGranted, view,
                  loadState, alerts, pureIn, pureOut, linkVars, now, mapVars >>

\* the entry for a handled body: the reply, or the catch block's entry
settled(i, result) ==
  IF result.kind = "reply"
  THEN /\ messages' = appendMessage(messages, assistantEntry(i, result))
       /\ loading' = loadingAfter([ kind |-> "reply", error |-> ABSENT ])
       /\ calls' = setCall(i, Done(calls[i].input, [ kind |-> "reply", error |-> ABSENT ]))
  ELSE caught(i, calls[i].input, messages, result.message)

\* the generation fetch settles: it rejects, or response.json() throws, or
\* the parsed body is handled
fetchSettles ==
  /\ \E i \in 1..Len(calls) :
       /\ calls[i].pc = "fetching"
       /\ \/ \E e \in Exceptions : settled(i, [ kind |-> "throw", message |-> e ])
          \/ \E data \in Bodies : settled(i, handleResponse(data))
  /\ UNCHANGED << variant, inputText, ferryData, userLocation,
                  locationPermissionGranted, view, loadState, alerts, pureIn, pureOut, linkVars, now, mapVars >>

Next ==
  \/ loadFerryData
  \/ Render
  \/ setInputText
  \/ sendMessage
  \/ permissionSettles
  \/ positionSettles
  \/ fetchSettles

Spec == Init /\ [][Next]_vars

(***************************************************************************)
(* The session with its clock: a millisecond passes between any two steps, *)
(* or none does.                                                           *)
(***************************************************************************)
\* milliseconds that pass in one run
MaxTicks == 2

tick ==
  /\ now <= MaxTicks
  /\ now' = now + 1
  /\ UNCHANGED << variant, messages, inputText, loading, ferryData, userLocation,
                  locationPermissionGranted, view, loadState, calls, alerts,
                  pureIn, pureOut, linkVars, mapVars >>

NextIds ==
  \/ Next
  \/ tick

SpecIds == Init /\ [][NextIds]_vars

(***************************************************************************)
(* The pure functions on their own: one argument drawn at the start, one   *)
(* application.                                                            *)
(***************************************************************************)
\* texts for the keyword extractor: punctuation after a capitalised token,
\* stopwords and short tokens only, duplicates, more than ten keywords,
\* numbers and surrounding whitespace
K_Fare   == << "W", "h", "a", "t", "'", "s", " ", "t", "h", "e", " ", "f", "a", "r", "e", " ", "t", "o", " ", "C", "M", "S", "?" >>
K_Stop   == << "t", "h", "e", " ", "a", "n", "d", " ", "f", "o", "r", " ", "t", "o", " ", "m", "e" >>
K_Dup    == << "C", "M", "S", " ", "c", "m", "s", " ", "f", "a", "r", "e", " ", "F", "a", "r", "e", " ", "C", "M", "S" >>
K_Long   == << "A", "p", "a", "p", "a", " ", "i", "k", "o", "r", "o", "d", "u", " ", "b", "a", "d", "a", "g", "r", "y", " ", "c", "m", "s", " ", "f", "a", "l", "o", "m", "o", " ", "l", "e", "k", "k", "i", " ", "f", "a", "r", "e", " ", "s", "c", "h", "e", "d", "u", "l", "e", " ", "r", "o", "u", "t", "e", " ", "j", "e", "t", "t", "y", " ", "e", "b", "u", "t", "e", " ", "e", "r", "o" >>
K_Mixed  == << " ", "T", "h", "e", " ", "5", "0", "0", " ", "2", "4", "h", "r", " ", " ", "b", "o", "a", "t" >>
\* "is it ok? 7 a-b\tme": short tokens only
K_Short  == << "i", "s", " ", "i", "t", " ", "o", "k", "?", " ", "7", " ", "a", "-", "b", "\t", "m", "e" >>
KeywordTexts ==
  { << >>, Q_Blank, Q_Short, Q_Nearest, Q_Routes, Q_NoMatch,
    K_Fare, K_Stop, K_Dup, K_Long, K_Mixed, K_Short,
    \* "open (24hr) #3rd": tokens that begin with digits once stripped
    << "o", "p", "e", "n", " ", "(", "2", "4", "h", "r", ")", " ", "#", "3", "r", "d" >>,
    \* "24hr": the same, nothing before the digits
    << "2", "4", "h", "r" >>,
    \* "500": a number only
    << "5", "0", "0" >> }
\* arguments of getKeywords
KeywordArgs == { [ fn |-> "getKeywords", text |-> t ] : t \in KeywordTexts }

\* texts for the query classifier: the terms in capitals and in reverse
\* order, inside longer words, one vocabulary only
L_Upper     == << "S", "T", "A", "T", "I", "O", "N", " ", "N", "E", "A", "R", "B", "Y" >>
L_Inside    == << "n", "o", "n", "s", "t", "o", "p", " ", "n", "e", "a", "r", "l", "y" >>
L_NearOnly  == << "I", "s", " ", "i", "t", " ", "c", "l", "o", "s", "e", " ", "t", "o", " ", "A", "p", "a", "p", "a" >>
L_JettyOnly == << "L", "i", "s", "t", " ", "e", "v", "e", "r", "y", " ", "j", "e", "t", "t", "y" >>
ClassifierTexts ==
  { << >>, Q_Nearest, Q_Routes, K_Fare, K_Stop, L_Upper, L_Inside, L_NearOnly, L_JettyOnly }
\* arguments of isNearestJettyQuery
ClassifierArgs == { [ fn |-> "isNearestJettyQuery", text |-> t ] : t \in ClassifierTexts }

\* arguments of findNearestJetties as handleNearestJettyQuery calls it
RankingArgs ==
  { [ fn |-> "findNearestJetties", userLocation |-> loc, jetties |-> DataRef(n, 0, kind),
      count |-> NEAREST_COUNT ] :
      loc \in Locations, n \in 0..MaxFeatures, kind \in { "cms", "mixed" } }

\* texts for the renderer: the example of the specification, markers
\* separated by whitespace, a bold marker inside a link and around one,
\* surplus brackets and asterisks, markers that do not match
M_Example    == << "V", "i", "s", "i", "t", " ", "*", "*", "E", "b", "u", "t", "e", " ", "E", "r", "o", "*", "*", " ", "v", "i", "a", " ", "[", "t", "h", "i", "s", " ", "l", "i", "n", "k", "]", "(", "h", "t", "t", "p", "s", ":", "/", "/", "x", ".", "t", "e", "s", "t", ")" >>
MarkdownTexts ==
  { << >>, Q_Blank, R_Text, M_Example,
    \* "**a** [b](c) \n**d** "
    << "*", "*", "a", "*", "*", " ", "[", "b", "]", "(", "c", ")", " ", "\n", "*", "*", "d", "*", "*", " " >>,
    \* "x[**a**](u)"
    << "x", "[", "*", "*", "a", "*", "*", "]", "(", "u", ")" >>,
    \* "**b** [[**a**](u) **c**"
    << "*", "*", "b", "*", "*", " ", "[", "[", "*", "*", "a", "*", "*", "]", "(", "u", ")", " ", "*", "*", "c", "*", "*" >>,
    \* "**b** [**a**](u)"
    << "*", "*", "b", "*", "*", " ", "[", "*", "*", "a", "*", "*", "]", "(", "u", ")" >>,
    \* "**a** **b**"
    << "*", "*", "a", "*", "*", " ", "*", "*", "b", "*", "*" >>,
    \* "**[a](b)**"
    << "*", "*", "[", "a", "]", "(", "b", ")", "*", "*" >>,
    \* "[[a](b)***c**"
    << "[", "[", "a", "]", "(", "b", ")", "*", "*", "*", "c", "*", "*" >>,
    \* "a*b [c] (d) []() ****"
    << "a", "*", "b", " ", "[", "c", "]", " ", "(", "d", ")", " ", "[", "]", "(", ")", " ", "*", "*", "*", "*" >> }
\* arguments of parseMarkdown
MarkdownArgs == { [ fn |-> "parseMarkdown", text |-> t ] : t \in MarkdownTexts }

KeywordLists ==
  { << >>, << toLowerCase(N_CMS) >>, << toLowerCase(N_Apapa), toLowerCase(N_Ikorodu) >>,
    << <<"f", "a", "r", "e">> >>, << <<"x", "y", "z">> >>,
    << <<"x", "y", "z">>, <<"p", "i", "e", "r">> >>,
    << << "1", "6" >> >> }
QueryTexts == { Q_Short, Q_Routes, Q_Nearest, Q_NoMatch }

\* arguments of filterDataByKeywords: every size of either list up to MaxFeatures
ScoperArgs ==
  { [ fn |-> "filterDataByKeywords", data |-> DataRef(nj, nr, kind), keywords |-> kws ] :
      nj \in 0..MaxFeatures, nr \in 0..MaxFeatures, kind \in { "cms", "mixed" },
      kws \in KeywordLists }
\* arguments of contextStep: a render's values and the text sent
ContextArgs ==
  { [ fn |-> "contextStep", input |-> t,
      closure |-> [ inputText |-> t, loading |-> FALSE, ferryData |-> DataRef(n, n, kind),
                    userLocation |-> loc, locationPermissionGranted |-> loc # NULL ] ] :
      t \in QueryTexts, n \in 0..MaxFeatures, kind \in Kinds, loc \in Locations \cup { NULL } }
\* arguments of handleResponse
ResponseArgs == { [ fn |-> "handleResponse", data |-> d ] : d \in AllBodies }

InitPure ==
  /\ InitComponent
  /\ pureIn \in ScoperArgs \cup ContextArgs \cup ResponseArgs \cup KeywordArgs
               \cup ClassifierArgs \cup RankingArgs
               \cup MarkdownArgs
  /\ pureOut = NULL
  /\ InitLinking

applyScoper ==
  /\ pureIn.fn = "filterDataByKeywords"
  /\ pureOut = NULL
  /\ pureOut' = filterDataByKeywords(variant, features(pureIn.data), pureIn.keywords)
  /\ UNCHANGED << variant, messages, inputText, loading, ferryData, userLocation,
                  locationPermissionGranted, view, loadState, calls, alerts, pureIn, linkVars, now, mapVars >>

applyContext ==
  /\ pureIn.fn = "contextStep"
  /\ pureOut = NULL
  /\ pureOut' = contextStep(variant, pureIn.closure, pureIn.input)
  /\ UNCHANGED << variant, messages, inputText, loading, ferryData, userLocation,
                  locationPermissionGranted, view, loadState, calls, alerts, pureIn, linkVars, now, mapVars >>

applyResponse ==
  /\ pureIn.fn = "handleResponse"
  /\ pureOut = NULL
  /\ pureOut' = assistantEntry(1, handleResponse(pureIn.data))
  /\ UNCHANGED << variant, messages, inputText, loading, ferryData, userLocation,
                  locationPermissionGranted, view, loadState, calls, alerts, pureIn, linkVars, now, mapVars >>

\* keywords.join(' ')
RECURSIVE joinSpaces(_)
joinSpaces(words) ==
  IF words = << >> THEN << >>
  ELSE IF Len(words) = 1 THEN words[1]
  ELSE words[1] \o << " " >> \o joinSpaces(Tail(words))

applyKeywords ==
  /\ pureIn.fn = "getKeywords"
  /\ pureOut = NULL
  /\ pureOut' = [ keywords |-> getKeywords(variant, pureIn.text),
                  reapplied |-> FALSE, again |-> << >> ]
  /\ UNCHANGED << variant, messages, inputText, loading, ferryData, userLocation,
                  locationPermissionGranted, view, loadState, calls, alerts, pureIn, linkVars, now, mapVars >>

\* getKeywords applied to its own result, joined by single spaces
reapplyKeywords ==
  /\ pureIn.fn = "getKeywords"
  /\ pureOut # NULL
  /\ ~pureOut.reapplied
  /\ pureOut' = [ pureOut EXCEPT !.reapplied = TRUE,
                    !.again = getKeywords(variant, joinSpaces(pureOut.keywords)) ]
  /\ UNCHANGED << variant, messages, inputText, loading, ferryData, userLocation,
                  locationPermissionGranted, view, loadState, calls, alerts, pureIn, linkVars, now, mapVars >>

applyClassifier ==
  /\ pureIn.fn = "isNearestJettyQuery"
  /\ pureOut = NULL
  /\ pureOut' = [ isLocationQuery |-> isNearestJettyQuery(pureIn.text) ]
  /\ UNCHANGED << variant, messages, inputText, loading, ferryData, userLocation,
                  locationPermissionGranted, view, loadState, calls, alerts, pureIn, linkVars, now, mapVars >>

applyRanking ==
  /\ pureIn.fn = "findNearestJetties"
  /\ pureOut = NULL
  /\ pureOut' = [ nearest |-> findNearestJetties(pureIn.userLocation,
                                features(pureIn.jetties).jetties, pureIn.count) ]
  /\ UNCHANGED << variant, messages, inputText, loading, ferryData, userLocation,
                  locationPermissionGranted, view, loadState, calls, alerts, pureIn, linkVars, now, mapVars >>

applyMarkdown ==
  /\ pureIn.fn = "parseMarkdown"
  /\ pureOut = NULL
  /\ pureOut' = [ segments |-> parseMarkdown(pureIn.text) ]
  /\ UNCHANGED << variant, messages, inputText, loading, ferryData, userLocation,
                  locationPermissionGranted, view, loadState, calls, alerts, pureIn, linkVars, now, mapVars >>

NextPure ==
  \/ applyScoper
  \/ applyContext
  \/ applyResponse
  \/ applyKeywords
  \/ reapplyKeywords
  \/ applyClassifier
  \/ applyRanking
  \/ applyMarkdown

SpecPure == InitPure /\ [][NextPure]_vars

(***************************************************************************)
(* The link handlers: the link segments of a rendered assistant message    *)
(* (MarkdownText.handlePress) and the "Navigate to Jetty" button of the    *)
(* jetty details on the map screen.                                        *)
(***************************************************************************)
\* Linking and console calls made in one run
MaxLinkCalls == 4

\* the rendered messages: the example with its link to https://x.test, a
\* link to the map URL of a jetty and a second link, a text without links
LinkTexts ==
  { M_Example, R_Text,
    \* "[CMS](https://maps.test/cms) or [site](https://x.test)"
    << "[", "C", "M", "S", "]", "(", "h", "t", "t", "p", "s", ":", "/", "/", "m", "a", "p", "s", ".", "t", "e", "s", "t", "/", "c", "m", "s", ")", " ", "o", "r", " ", "[", "s", "i", "t", "e", "]", "(", "h", "t", "t", "p", "s", ":", "/", "/", "x", ".", "t", "e", "s", "t", ")" >> }

\* the jetties of the map, by their google_maps_url: a URL, a URL between
\* blanks, blanks only, none
MapJetties ==
  { [ properties |-> [ google_maps_url |-> url ] ] :
      url \in { << "h", "t", "t", "p", "s", ":", "/", "/", "m", "a", "p", "s", ".", "t", "e", "s", "t", "/", "c", "m", "s" >>,
                << " ", "h", "t", "t", "p", "s", ":", "/", "/", "m", "a", "p", "s", ".", "t", "e", "s", "t", "/", "i", "k", "o", "r", "o", "d", "u", "\n" >>,
                << " ", " " >>,
                ABSENT } }

linkCall(op, url, result) == [ op |-> op, url |-> url, result |-> result ]

InitLinks ==
  /\ InitComponent
  /\ pureIn = NULL
  /\ pureOut = NULL
  /\ markdownText \in LinkTexts
  /\ InitMap
  /\ selectedJetty = NULL
  /\ selectedRoute = NULL
  /\ linkQueries = << >>
  /\ linkLog = << >>

canPress == Len(linkQueries) + Len(linkLog) < MaxLinkCalls

\* onPress of a link segment: handlePress up to its await, the openability
\* query is under way
pressLink ==
  /\ canPress
  /\ \E k \in DOMAIN parseMarkdown(markdownText) :
       LET segment == parseMarkdown(markdownText)[k]
       IN /\ segment.type = "link"
          /\ segment.url # << >>
          /\ linkQueries' = Append(linkQueries, segment.url)
  /\ UNCHANGED << variant, messages, inputText, loading, ferryData, userLocation,
                  locationPermissionGranted, view, loadState, calls, alerts,
                  pureIn, pureOut, markdownText, selectedJetty, selectedRoute, linkLog, now,
                  mapVars >>

\* handlePress after its await: Linking.canOpenURL settles with true, with
\* false or with a rejection; the URL is opened when it returned true, the
\* failure is logged when it returned false, a rejection ends the handler
querySettles ==
  \E i \in DOMAIN linkQueries, supported \in { "true", "false", "rejected" } :
    LET url == linkQueries[i]
    IN /\ linkQueries' = SubSeq(linkQueries, 1, i - 1)
                           \o SubSeq(linkQueries, i + 1, Len(linkQueries))
       /\ linkLog' = linkLog \o << linkCall("canOpenURL", url, supported) >>
                       \o (IF supported = "true"
                           THEN << linkCall("openURL", url, "none") >>
                           ELSE IF supported = "false"
                           THEN << linkCall("console.error", url, "none") >>
                           ELSE << >>)
       /\ UNCHANGED << variant, messages, inputText, loading, ferryData, userLocation,
                       locationPermissionGranted, view, loadState, calls, alerts,
                       pureIn, pureOut, markdownText, selectedJetty, selectedRoute, now,
                       mapVars >>

\* the routes drawn on the map, by their route_id
MapRoutes ==
  { [ properties |-> [ route_id |-> route_id ] ] : route_id \in { "R1", "R2" } }

\* the details card is rendered when this holds
isModalVisible == selectedJetty # NULL \/ selectedRoute # NULL

\* onPress of a jetty marker
selectJetty ==
  /\ \E jetty \in MapJetties :
       /\ selectedJetty # jetty
       /\ selectedRoute' = NULL
       /\ selectedJetty' = jetty
  /\ UNCHANGED << variant, messages, inputText, loading, ferryData, userLocation,
                  locationPermissionGranted, view, loadState, calls, alerts,
                  pureIn, pureOut, markdownText, linkQueries, linkLog, now, mapVars >>

\* onPress of a route line that leaves the jetty selected
selectRouteKeepingJetty ==
  /\ \E route \in MapRoutes :
       /\ selectedRoute # route
       /\ UNCHANGED selectedJetty
       /\ selectedRoute' = route
  /\ UNCHANGED << variant, messages, inputText, loading, ferryData, userLocation,
                  locationPermissionGranted, view, loadState, calls, alerts,
                  pureIn, pureOut, markdownText, linkQueries, linkLog, now, mapVars >>

\* onPress of a route line
selectRoute ==
  /\ \E route \in MapRoutes :
       /\ selectedRoute # route
       /\ selectedJetty' = NULL
       /\ selectedRoute' = route
  /\ UNCHANGED << variant, messages, inputText, loading, ferryData, userLocation,
                  locationPermissionGranted, view, loadState, calls, alerts,
                  pureIn, pureOut, markdownText, linkQueries, linkLog, now, mapVars >>

\* onPress of the map and of the Close button of the details card
closeModal ==
  /\ isModalVisible
  /\ selectedJetty' = NULL
  /\ selectedRoute' = NULL
  /\ UNCHANGED << variant, messages, inputText, loading, ferryData, userLocation,
                  locationPermissionGranted, view, loadState, calls, alerts,
                  pureIn, pureOut, markdownText, linkQueries, linkLog, now, mapVars >>

\* onPress of "Navigate to Jetty" in the details of the selected jetty
pressNavigate ==
  /\ selectedJetty # NULL
  /\ canPress
  /\ LET google_maps_url == selectedJetty.properties.google_maps_url
         \* jetty.properties.google_maps_url?.trim()
         url == IF google_maps_url = ABSENT THEN ABSENT ELSE trim(google_maps_url)
     IN IF url # ABSENT /\ url # << >>
        THEN linkLog' = Append(linkLog, linkCall("openURL", url, "none"))
        ELSE UNCHANGED linkLog
  /\ UNCHANGED << variant, messages, inputText, loading, ferryData, userLocation,
                  locationPermissionGranted, view, loadState, calls, alerts,
                  pureIn, pureOut, markdownText, selectedJetty, selectedRoute, linkQueries,
                  now, mapVars >>

NextLinks ==
  \/ pressLink
  \/ querySettles
  \/ selectJetty
  \/ selectRoute
  \/ closeModal
  \/ pressNavigate

SpecLinks == InitLinks /\ [][NextLinks]_vars

(***************************************************************************)
(* The map screen: fetchData, run once by the mount effect, and the jetty  *)
(* filter drawer, which is mounted once the map is shown.                  *)
(***************************************************************************)
\* the LGA values of the datasets, in sorted order, and the charter values
LGAOptions == << "Apapa", "Ikorodu" >>
charterOptions == << "Yes", "No" >>

mapJetty(name, LGA, charter_services) ==
  [ properties |-> [ name |-> name, LGA |-> LGA, charter_services |-> charter_services ] ]

\* the jetty lists the fetch may deliver: charter values "Yes" and "No" only,
\* one LGA only, a jetty whose charter value is neither, no jetty
MapDatasets ==
  { << mapJetty("a", "Apapa", "Yes"), mapJetty("b", "Ikorodu", "No") >>,
    << mapJetty("a", "Apapa", "Yes"), mapJetty("c", "Apapa", "No") >>,
    << mapJetty("a", "Apapa", "Yes"), mapJetty("b", "Ikorodu", "No"),
       mapJetty("d", "Ikorodu", "Unknown") >>,
    << >> }

\* Array.from(new Set(jetties.map((j) => j.properties.LGA))).sort()
uniqueLGAs(jetties) ==
  SelectSeq(LGAOptions, LAMBDA lga : \E k \in 1..Len(jetties) : jetties[k].properties.LGA = lga)

\* applyFilters: what it hands to onFilterChange
applyFilters(jetties, lgas, charters) ==
  SelectSeq(jetties, LAMBDA jetty :
    /\ jetty.properties.LGA \in Range(lgas)
    /\ jetty.properties.charter_services \in Range(charters))

\* if (loading || !location) the loading view is returned, else the map
mapShown == ~mapLoading /\ mapLocation # NULL

\* both fetches and both json() calls settle: the lists are set and the
\* effect on [jetties] copies them to filteredJetties, or the catch block
\* logs the error and finally clears the flag
datasetsSettle ==
  /\ fetchPc = "fetching"
  /\ \/ \E data \in MapDatasets :
          /\ loadedJetties' = data
          /\ filteredJetties' = data
          /\ fetchPc' = "permission"
          /\ UNCHANGED mapLoading
     \/ /\ fetchPc' = "failed"
        /\ mapLoading' = FALSE
        /\ UNCHANGED << loadedJetties, filteredJetties >>
  /\ UNCHANGED << variant, messages, inputText, loading, ferryData, userLocation,
                  locationPermissionGranted, view, loadState, calls, alerts,
                  pureIn, pureOut, linkVars, now,
                  mapLocation, showFilterDrawer, selectedLGAs, selectedCharterServices >>

\* requestForegroundPermissionsAsync settles: granted, or not granted (the
\* warning, return, finally), or with an exception (catch, finally)
mapPermissionSettles ==
  /\ fetchPc = "permission"
  /\ \E status \in { "granted", "denied", "throws" } :
       IF status = "granted"
       THEN /\ fetchPc' = "locating"
            /\ UNCHANGED mapLoading
       ELSE /\ fetchPc' = IF status = "denied" THEN "denied" ELSE "noFix"
            /\ mapLoading' = FALSE
  /\ UNCHANGED << variant, messages, inputText, loading, ferryData, userLocation,
                  locationPermissionGranted, view, loadState, calls, alerts,
                  pureIn, pureOut, linkVars, now,
                  loadedJetties, mapLocation, filteredJetties, showFilterDrawer,
                  selectedLGAs, selectedCharterServices >>

\* getCurrentPositionAsync settles.  With a fix the location is set, the
\* watch is started and finally clears the flag: the map is shown and the
\* drawer is mounted over the loaded jetties, every option selected, and its
\* effect applies the filters.  With an exception: catch, finally.
mapPositionSettles ==
  /\ fetchPc = "locating"
  /\ \/ \E fix \in Locations :
          /\ mapLocation' = fix
          /\ mapLoading' = FALSE
          /\ fetchPc' = "watching"
          /\ selectedLGAs' = uniqueLGAs(loadedJetties)
          /\ selectedCharterServices' = charterOptions
          /\ filteredJetties' = applyFilters(loadedJetties, uniqueLGAs(loadedJetties),
                                             charterOptions)
     \/ /\ fetchPc' = "noFix"
        /\ mapLoading' = FALSE
        /\ UNCHANGED << mapLocation, selectedLGAs, selectedCharterServices, filteredJetties >>
  /\ UNCHANGED << variant, messages, inputText, loading, ferryData, userLocation,
                  locationPermissionGranted, view, loadState, calls, alerts,
                  pureIn, pureOut, linkVars, now,
                  loadedJetties, showFilterDrawer >>

\* the callback of watchPositionAsync
watchPosition ==
  /\ fetchPc = "watching"
  /\ \E fix \in Locations :
       /\ fix # mapLocation
       /\ mapLocation' = fix
  /\ UNCHANGED << variant, messages, inputText, loading, ferryData, userLocation,
                  locationPermissionGranted, view, loadState, calls, alerts,
                  pureIn, pureOut, linkVars, now,
                  fetchPc, loadedJetties, mapLoading, filteredJetties, showFilterDrawer,
                  selectedLGAs, selectedCharterServices >>

\* the filter button of the header, and onClose of the drawer
openDrawer ==
  /\ mapShown
  /\ ~showFilterDrawer
  /\ showFilterDrawer' = TRUE
  /\ UNCHANGED << variant, messages, inputText, loading, ferryData, userLocation,
                  locationPermissionGranted, view, loadState, calls, alerts,
                  pureIn, pureOut, linkVars, now,
                  fetchPc, loadedJetties, mapLoading, mapLocation, filteredJetties,
                  selectedLGAs, selectedCharterServices >>

closeDrawer ==
  /\ mapShown
  /\ showFilterDrawer
  /\ showFilterDrawer' = FALSE
  /\ UNCHANGED << variant, messages, inputText, loading, ferryData, userLocation,
                  locationPermissionGranted, view, loadState, calls, alerts,
                  pureIn, pureOut, linkVars, now,
                  fetchPc, loadedJetties, mapLoading, mapLocation, filteredJetties,
                  selectedLGAs, selectedCharterServices >>

\* a handler of the open drawer sets the selections; the effect on
\* [selectedLGAs, selectedCharterServices] then applies the filters
setSelections(lgas, charters) ==
  /\ mapShown
  /\ showFilterDrawer
  /\ selectedLGAs' = lgas
  /\ selectedCharterServices' = charters
  /\ filteredJetties' = applyFilters(loadedJetties, lgas, charters)
  /\ UNCHANGED << variant, messages, inputText, loading, ferryData, userLocation,
                  locationPermissionGranted, view, loadState, calls, alerts,
                  pureIn, pureOut, linkVars, now,
                  fetchPc, loadedJetties, mapLoading, mapLocation, showFilterDrawer >>

\* prev.includes(x) ? prev.filter((l) => l !== x) : [...prev, x]
toggled(prev, x) ==
  IF x \in Range(prev) THEN SelectSeq(prev, LAMBDA l : l # x) ELSE Append(prev, x)

toggleLGA ==
  \E lga \in Range(uniqueLGAs(loadedJetties)) :
    setSelections(toggled(selectedLGAs, lga), selectedCharterServices)

toggleCharterService ==
  \E service \in Range(charterOptions) :
    setSelections(selectedLGAs, toggled(selectedCharterServices, service))

selectAllLGAs ==
  setSelections(IF Len(selectedLGAs) = Len(uniqueLGAs(loadedJetties))
                THEN << >> ELSE uniqueLGAs(loadedJetties),
                selectedCharterServices)

selectAllCharterServices ==
  setSelections(selectedLGAs,
                IF Len(selectedCharterServices) = Len(charterOptions)
                THEN << >> ELSE charterOptions)

resetFilters == setSelections(uniqueLGAs(loadedJetties), charterOptions)

InitMapScreen ==
  /\ InitComponent
  /\ pureIn = NULL
  /\ pureOut = NULL
  /\ InitLinking

NextMap ==
  \/ datasetsSettle
  \/ mapPermissionSettles
  \/ mapPositionSettles
  \/ watchPosition
  \/ openDrawer
  \/ closeDrawer
  \/ toggleLGA
  \/ toggleCharterService
  \/ selectAllLGAs
  \/ selectAllCharterServices
  \/ resetFilters

SpecMap == InitMapScreen /\ [][NextMap]_vars

(***************************************************************************)
(* Properties.  The session properties are stated for Spec, the properties *)
(* of the pure functions for SpecPure.                                     *)
(***************************************************************************)
outstanding == { i \in 1..Len(calls) : calls[i].pc = "fetching" }
entriesOf(i) == SelectSeq(messages, LAMBDA m : m.call = i)
userEntries(msgs) == SelectSeq(msgs, LAMBDA m : m.isUser)
finishes(i) ==
  /\ i \in 1..Len(calls')
  /\ calls'[i].pc = "done"
  /\ i > Len(calls) \/ calls[i].pc # "done"

\* C1: at most one generation request is outstanding at any time, in every
\* interleaving of send activations, re-renders and completions, two
\* activations before the re-render included.  The code does not keep this:
\* both activations run the sendMessage of the same render, whose guard
\* reads the flag that render captured.
C1_AtMostOneOutstanding == Cardinality(outstanding) <= 1

\* C2: sendMessage changes nothing (no user entry appended, input text not
\* cleared, in-progress flag not raised, no request issued) whenever the
\* input it reads is empty or whitespace-only, or the in-progress flag it
\* reads is set, or the dataset it reads is unset.  The values it reads are
\* those of the render that created it.
C2_Blocked ==
  \/ trim(view.inputText) = << >>
  \/ view.loading
  \/ view.ferryData = NULL
C3_FlagClearedOnFinish ==
  [][ (\E i \in 1..Len(calls') : finishes(i)) =>
        /\ loading' = FALSE
        /\ \A t \in QuickTexts : sendGuard([ snapshot' EXCEPT !.inputText = t ]) ]_vars
\* a proximity send was aborted and the rendered guard accepts the next text
C3_Witness ==
  /\ Len(calls) = 1
  /\ calls[1].pc = "done"
  /\ calls[1].outcome.kind = "aborted"
  /\ ~loading
  /\ sendGuard(view)

\* C5 as stated: a send in which the generation fetch rejects, the body
\* cannot be parsed or any step throws has appended exactly its user entry
\* followed by one assistant-authored failure entry that carries the
\* exception's description.  An exception of the location collaborator is
\* caught inside requestLocationPermission and does not end that way.
C5_hasFailureEntries(i, description) ==
  LET es == entriesOf(i)
  IN /\ Len(es) = 2
     /\ es[1] = Message(calls[i].input, TRUE, FALSE, i)
     /\ ~es[2].isUser /\ ~es[2].isSystemMessage
     /\ IsPrefix(T_SorryPre, es[2].text)
     /\ includes(es[2].text, description)
C5_AnyThrowOneFailureEntry ==
  \A i \in 1..Len(calls) :
    (calls[i].pc = "done" /\ calls[i].outcome.error # ABSENT) =>
      C5_hasFailureEntries(i, calls[i].outcome.error)

\* C5, amended: a send in which the generation fetch rejects, the body cannot
\* be parsed or any step throws an exception that reaches the catch block of
\* sendMessage has appended exactly its user entry followed by one
\* assistant-authored failure entry that carries the exception's description.
C5_OneFailureEntry ==
  \A i \in 1..Len(calls) :
    (calls[i].pc = "done" /\ calls[i].outcome.kind = "failure") =>
      C5_hasFailureEntries(i, calls[i].outcome.error)
\* findNearestJetties threw on a send that followed an aborted one
C5_Witness ==
  \E i \in 1..Len(calls) :
    /\ calls[i].pc = "done"
    /\ calls[i].outcome.kind = "failure"
    /\ calls[i].outcome.error = E_Geometry
    /\ Len(entriesOf(i)) = 2

\* C6: the transcript starts as the single welcome entry and every step
\* leaves the previous transcript a prefix of the new one.
C6_AppendOnly ==
  /\ messages = << welcome(variant) >>
  /\ [][IsPrefix(messages, messages')]_vars
\* a notice, a failure entry and a reply have been appended
C6_Witness ==
  /\ Len(messages) >= 5
  /\ \E k \in 1..Len(messages) : messages[k].isSystemMessage
  /\ \E k \in 1..Len(messages) : messages[k].text = R_Text

\* C7: once a dataset fetch has failed the dataset stays unset, no reload
\* happens, no generation request is issued and no send adds an entry.
C7_FailedLoadDisablesSending ==
  /\ [](loadState = "failed" =>
          /\ ferryData = NULL
          /\ calls = << >>
          /\ messages = << welcome(variant) >>)
  /\ [][loadState = "failed" => (loadState' = "failed" /\ ferryData' = NULL)]_vars
\* the load has failed and the rendered input holds a text to send
C7_Witness ==
  /\ loadState = "failed"
  /\ trim(view.inputText) # << >>
  /\ ~view.loading

\* C4: for every combination of the fields of the generation response the
\* appended assistant entry follows the priority structured error (failure
\* entry embedding the service's message) > generated text (verbatim) >
\* safety block (fixed message) > invalid response (finish reason or
\* "Unknown").
C4_isFailureEntry(e) ==
  /\ ~e.isUser /\ ~e.isSystemMessage
  /\ IsPrefix(T_SorryPre, e.text)
C4_ResponsePriority ==
  (pureIn.fn = "handleResponse" /\ pureOut # NULL) =>
    LET d == pureIn.data
    IN IF d.error # NULL
       THEN /\ C4_isFailureEntry(pureOut)
            /\ includes(pureOut.text, T_ApiError)
            /\ d.error.message # ABSENT => includes(pureOut.text, d.error.message)
       ELSE IF d.text # ABSENT /\ d.text # << >>
       THEN pureOut = Message(d.text, FALSE, FALSE, 1)
       ELSE IF d.finishReason = R_SAFETY
       THEN /\ C4_isFailureEntry(pureOut)
            /\ includes(pureOut.text, T_Safety)
       ELSE /\ C4_isFailureEntry(pureOut)
            /\ includes(pureOut.text,
                 T_InvalidPre \o (IF d.finishReason = ABSENT THEN T_Unknown ELSE d.finishReason))
\* a body with an error, a text and finish reason SAFETY has been handled
C4_Witness ==
  /\ pureIn.fn = "handleResponse"
  /\ pureOut # NULL
  /\ pureIn.data.error # NULL /\ pureIn.data.error.message = R_Quota
  /\ pureIn.data.text = R_Text
  /\ pureIn.data.finishReason = R_SAFETY

\* C8: in every prompt the number of jetties and of routes stays within the
\* cap of the path taken: 3 on the sample path, 15 (baseline) or 8
\* (location-aware) on the keyword path, 5 jetties and no route on the
\* proximity path, whatever the size of the dataset.
C8_ContextWithinCaps ==
  (pureIn.fn = "contextStep" /\ pureOut # NULL /\ pureOut.kind = "fetch") =>
    LET p == pureOut.prompt
    IN CASE p.dataLabel.kind = "Sampled" ->
              Len(p.jetties) <= 3 /\ Len(p.routes) <= 3
         [] p.dataLabel.kind = "Filtered" ->
              /\ Len(p.jetties) <= (IF variant = "baseline" THEN 15 ELSE 8)
              /\ Len(p.routes) <= (IF variant = "baseline" THEN 15 ELSE 8)
         [] p.dataLabel.kind = "Location-Based" ->
              Len(p.jetties) <= 5 /\ Len(p.routes) = 0
         [] OTHER -> FALSE
\* a keyword prompt over a dataset with more matching records than the cap
C8_Witness ==
  /\ pureIn.fn = "contextStep"
  /\ pureOut # NULL
  /\ pureOut.kind = "fetch"
  /\ pureOut.prompt.dataLabel.kind = "Filtered"
  /\ pureIn.closure.ferryData.nj > 15
  /\ Len(pureOut.prompt.jetties) = (IF variant = "baseline" THEN 15 ELSE 8)
  /\ Len(pureOut.prompt.routes) = (IF variant = "baseline" THEN 15 ELSE 8)

\* C9: with an empty keyword list filterDataByKeywords returns the first
\* min(3, Nj) jetties and the first min(3, Nr) routes, in dataset order,
\* marked as sampled.
C9_firstN(s, n) == [ k \in 1..(IF Len(s) < n THEN Len(s) ELSE n) |-> s[k] ]
C9_EmptyKeywordsSample ==
  (pureIn.fn = "filterDataByKeywords" /\ pureOut # NULL /\ pureIn.keywords = << >>) =>
    LET data == features(pureIn.data)
    IN /\ pureOut.jetties = C9_firstN(data.jetties, 3)
       /\ pureOut.routes = C9_firstN(data.routes, 3)
       /\ pureOut.isSample
\* sampled from more than three jetties and fewer than three routes
C9_Witness ==
  /\ pureIn.fn = "filterDataByKeywords"
  /\ pureOut # NULL
  /\ pureIn.keywords = << >>
  /\ pureIn.data.nj > 3
  /\ pureIn.data.nr = 2
  /\ Len(pureOut.jetties) = 3
  /\ Len(pureOut.routes) = 2

\* C10: with a non-empty keyword list that matches no jetty and no route
\* filterDataByKeywords returns empty lists marked as filtered, and the
\* prompt built from them carries the filtered label with zero counts and
\* no record.
C10_noMatch(data, keywords) ==
  /\ keywords # << >>
  /\ \A k \in 1..Len(data.jetties) : ~jettyMatches(data.jetties[k], keywords)
  /\ \A k \in 1..Len(data.routes) : ~routeMatches(data.routes[k], keywords)
C10_NoMatchIsFilteredEmpty ==
  /\ (/\ pureIn.fn = "filterDataByKeywords"
      /\ pureOut # NULL
      /\ C10_noMatch(features(pureIn.data), pureIn.keywords)) =>
       pureOut = [ jetties |-> << >>, routes |-> << >>, isSample |-> FALSE ]
  /\ (/\ pureIn.fn = "contextStep"
      /\ pureOut # NULL
      /\ pureOut.kind = "fetch"
      /\ pureOut.prompt.dataLabel.kind # "Location-Based"
      /\ C10_noMatch(features(pureIn.closure.ferryData),
                     getKeywords(variant, pureIn.input))) =>
       /\ pureOut.prompt.dataLabel.kind = "Filtered"
       /\ pureOut.prompt.dataLabel.jetties = 0
       /\ pureOut.prompt.dataLabel.routes = 0
       /\ pureOut.prompt.jetties = << >>
       /\ pureOut.prompt.routes = << >>
\* a prompt for a question whose keywords match nothing in a non-empty dataset
C10_Witness ==
  /\ pureIn.fn = "contextStep"
  /\ pureOut # NULL
  /\ pureOut.kind = "fetch"
  /\ pureIn.closure.ferryData.nj > 3
  /\ getKeywords(variant, pureIn.input) # << >>
  /\ C10_noMatch(features(pureIn.closure.ferryData), getKeywords(variant, pureIn.input))

\* C11: for a non-empty keyword list the scoped jetties are exactly the first
\* cap jetties, in dataset order, with a string-valued property whose
\* lowercase form contains a keyword; the scoped routes are exactly the first
\* cap routes with such a property of their own or inside their Public or
\* Private operator record; a property that is not a string never matches.
C11_hasMatch(values, keywords) ==
  \E i \in 1..Len(values), k \in 1..Len(keywords) :
    /\ values[i].type = "string"
    /\ includes(toLowerCase(values[i].value), keywords[k])
C11_routeQualifies(route, keywords) ==
  \/ C11_hasMatch(route.properties, keywords)
  \/ /\ route.operator # NULL
     /\ route.operator.Public # NULL
     /\ C11_hasMatch(route.operator.Public.values, keywords)
  \/ /\ route.operator # NULL
     /\ route.operator.Private # NULL
     /\ C11_hasMatch(route.operator.Private.values, keywords)
\* result is made of the first cap elements of list at the indices of q, ascending
firstOfIndices(result, list, q, cap) ==
  /\ Len(result) = (IF Cardinality(q) < cap THEN Cardinality(q) ELSE cap)
  /\ \A k \in 1..Len(result) :
       result[k] = list[CHOOSE i \in q : Cardinality({ j \in q : j < i }) = k - 1]
C11_KeywordMatchRule ==
  (pureIn.fn = "filterDataByKeywords" /\ pureOut # NULL /\ pureIn.keywords # << >>) =>
    LET data == features(pureIn.data)
        kws  == pureIn.keywords
        cap  == IF variant = "baseline" THEN 15 ELSE 8
        qj   == { i \in 1..Len(data.jetties) : C11_hasMatch(data.jetties[i].properties, kws) }
        qr   == { i \in 1..Len(data.routes) : C11_routeQualifies(data.routes[i], kws) }
    IN /\ firstOfIndices(pureOut.jetties, data.jetties, qj, cap)
       /\ firstOfIndices(pureOut.routes, data.routes, qr, cap)
\* routes matched through their operator records only, some routes left out,
\* and no jetty matched
C11_Witness ==
  /\ pureIn.fn = "filterDataByKeywords"
  /\ pureOut # NULL
  /\ pureIn.keywords = << <<"f", "a", "r", "e">> >>
  /\ pureIn.data.kind = "mixed"
  /\ pureIn.data.nj > 0
  /\ pureOut.jetties = << >>
  /\ Len(pureOut.routes) > 2
  /\ Len(pureOut.routes) < pureIn.data.nr

\* C12: getKeywords returns at most 10 strings, all lowercase, without
\* duplicates, in first-seen order (the kept tokens of the cleaned lowercase
\* pass in text order, then the tokens of the capitalised pass in text
\* order): the first 10 entries of that sequence, deduplicated.
C12_isLowercase(w) == \A k \in 1..Len(w) : ~IsUpper(w[k])
C12_KeywordsOrderedUnique ==
  (pureIn.fn = "getKeywords" /\ pureOut # NULL) =>
    LET out   == pureOut.keywords
        found == SelectSeq(cleanedWords(pureIn.text), LAMBDA w : keepWord(variant, w))
                 \o properNouns(pureIn.text)
        first == { i \in 1..Len(found) : \A j \in 1..(i - 1) : found[j] # found[i] }
    IN /\ Len(out) <= 10
       /\ \A k \in 1..Len(out) : C12_isLowercase(out[k])
       /\ \A i, j \in 1..Len(out) : i # j => out[i] # out[j]
       /\ firstOfIndices(out, found, first, 10)
\* a text with repeated words and more than ten distinct keywords
C12_Witness ==
  /\ pureIn.fn = "getKeywords"
  /\ pureOut # NULL
  /\ pureIn.text = K_Long
  /\ Len(pureOut.keywords) = 10
  /\ pureOut.keywords[1] = toLowerCase(N_Apapa)

\* C13: keyword extraction is idempotent on its own output: getKeywords
\* applied to the keywords of a text joined by single spaces yields the same
\* set of keywords, also for texts with punctuation inside or after a
\* capitalised token.  The code does not keep this: the capitalised pass
\* keeps the punctuation that the cleaned pass strips.
C13_Idempotent ==
  (pureIn.fn = "getKeywords" /\ pureOut # NULL /\ pureOut.reapplied) =>
    Range(pureOut.again) = Range(pureOut.keywords)

\* C14: isNearestJettyQuery is true exactly when the lowercased text
\* contains one of nearest, near, close, closest, around, nearby and one of
\* jetty, jetties, terminal, stop, station, whatever the case, the order and
\* the word boundaries; "What's the nearest jetty to me?" is a proximity
\* query and "What's the fare to CMS?" is not.
C14_proximityTerms ==
  { << "n", "e", "a", "r", "e", "s", "t" >>, << "n", "e", "a", "r" >>, << "c", "l", "o", "s", "e" >>, << "c", "l", "o", "s", "e", "s", "t" >>, << "a", "r", "o", "u", "n", "d" >>, << "n", "e", "a", "r", "b", "y" >> }
C14_jettyTerms ==
  { << "j", "e", "t", "t", "y" >>, << "j", "e", "t", "t", "i", "e", "s" >>, << "t", "e", "r", "m", "i", "n", "a", "l" >>, << "s", "t", "o", "p" >>, << "s", "t", "a", "t", "i", "o", "n" >> }
C14_ClassifierRule ==
  (pureIn.fn = "isNearestJettyQuery" /\ pureOut # NULL) =>
    /\ pureOut.isLocationQuery <=>
         /\ \E t \in C14_proximityTerms : includes(toLowerCase(pureIn.text), t)
         /\ \E t \in C14_jettyTerms : includes(toLowerCase(pureIn.text), t)
    /\ pureIn.text = Q_Nearest => pureOut.isLocationQuery
    /\ pureIn.text = K_Fare => ~pureOut.isLocationQuery
\* terms in capitals, jetty term first, classified as a proximity query
C14_Witness ==
  /\ pureIn.fn = "isNearestJettyQuery"
  /\ pureOut # NULL
  /\ pureIn.text = L_Upper
  /\ pureOut.isLocationQuery

\* C15: for any location and any jetty list J, findNearestJetties with the
\* count of the location-aware flow (5) returns min(5, |J|) jetties, each
\* annotated with its distance to the location, in non-decreasing distance
\* order; no omitted jetty is strictly nearer than a returned one and
\* jetties at equal distance keep their input order.  (A jetty of the
\* dataset is found again by its position, which the model keeps as its
\* first property.)
C15_position(jetty) == jetty.properties[1].value
C15_NearestRanking ==
  (pureIn.fn = "findNearestJetties" /\ pureOut # NULL) =>
    LET J    == features(pureIn.jetties).jetties
        loc  == pureIn.userLocation
        out  == pureOut.nearest
        d(i) == calculateDistance(loc.latitude, loc.longitude,
                                  J[i].geometry[2], J[i].geometry[1])
        returned == { C15_position(out[k]) : k \in 1..Len(out) }
    IN /\ Len(out) = (IF Len(J) < 5 THEN Len(J) ELSE 5)
       /\ Cardinality(returned) = Len(out)
       /\ \A k \in 1..Len(out) :
            LET i == C15_position(out[k])
            IN /\ i \in 1..Len(J)
               /\ out[k].properties = J[i].properties
               /\ out[k].geometry = J[i].geometry
               /\ out[k].distance = d(i)
       /\ \A k, l \in 1..Len(out) :
            k < l => \/ out[k].distance < out[l].distance
                     \/ /\ out[k].distance = out[l].distance
                        /\ C15_position(out[k]) < C15_position(out[l])
       /\ \A i \in (1..Len(J)) \ returned, k \in 1..Len(out) : d(i) >= out[k].distance
\* five of more than five jetties, with ties among the returned ones and a
\* jetty left out at the distance of the last one returned
C15_Witness ==
  /\ pureIn.fn = "findNearestJetties"
  /\ pureOut # NULL
  /\ pureIn.jetties.nj > 8
  /\ Len(pureOut.nearest) = 5
  /\ pureOut.nearest[1].distance = pureOut.nearest[2].distance
  /\ pureOut.nearest[1].distance < pureOut.nearest[5].distance

\* C16: proximity ranking never runs without a device location: every step
\* in which an invocation calls findNearestJetties (it then issues a
\* location-based prompt, or ends with the exception of the ranking) is
\* taken by a handler whose captured location and dataset are not null.
C16_ranked(i) ==
  /\ i \in 1..Len(calls')
  /\ \/ /\ calls'[i].pc = "fetching"
        /\ calls'[i].prompt.dataLabel.kind = "Location-Based"
     \/ /\ calls'[i].pc = "done"
        /\ calls'[i].outcome.kind = "failure"
        /\ calls'[i].outcome.error = E_Geometry
  /\ i > Len(calls) \/ calls[i].pc \in { "permission", "locating" }
C16_RankingNeedsLocation ==
  [][ \A i \in 1..Len(calls') :
        C16_ranked(i) =>
          LET handler == IF i > Len(calls) THEN view ELSE calls[i]
          IN handler.userLocation # NULL /\ handler.ferryData # NULL ]_vars
\* a location-based prompt is in flight
C16_Witness ==
  \E i \in 1..Len(calls) :
    /\ calls[i].pc = "fetching"
    /\ calls[i].prompt.dataLabel.kind = "Location-Based"
    /\ Len(calls[i].prompt.jetties) = 5
    /\ calls[i].userLocation # NULL

\* C17: when the permission is denied or the location request throws during
\* a proximity send, a failure notice is appended, the send ends without
\* having issued a generation request, the in-progress flag is cleared, and
\* a non-proximity send of the next render takes the keyword path and
\* issues its request.
C17_locationFails(i) ==
  /\ calls'[i].pc = "done"
  /\ calls'[i].outcome.kind = "aborted"
  /\ \/ calls[i].pc = "permission"
     \/ calls[i].pc = "locating" /\ calls'[i].outcome.error = E_Location
C17_DenialAbortsProximityOnly ==
  [][ /\ \A i \in 1..Len(calls) :
           C17_locationFails(i) =>
             /\ Len(messages') = Len(messages) + 1
             /\ SubSeq(messages', 1, Len(messages)) = messages
             /\ messages'[Len(messages')] = Message(T_LocationFailure, FALSE, FALSE, i)
             /\ loading' = FALSE
             /\ sendGuard([ snapshot' EXCEPT !.inputText = Q_Routes ])
      /\ \A i \in 1..Len(calls) :
           ( /\ calls[i].pc = "done"
             /\ calls[i].outcome.kind = "aborted"
             /\ Len(calls') = Len(calls) + 1
             /\ ~isNearestJettyQuery(calls'[Len(calls')].input) ) =>
             LET sent == calls'[Len(calls')]
             IN /\ sent.pc = "fetching"
                /\ sent.prompt.dataLabel.kind \in { "Filtered", "Sampled" }
                /\ ~sent.prompt.locationNote
      /\ \A i \in 1..Len(calls) : calls[i].pc = "done" => calls'[i] = calls[i] ]_vars
\* the permission was denied on the first send and the second send, a route
\* question, has its keyword prompt in flight
C17_Witness ==
  /\ Len(calls) = 2
  /\ calls[1].pc = "done"
  /\ calls[1].outcome = [ kind |-> "aborted", error |-> ABSENT ]
  /\ alerts = 1
  /\ \E k \in 1..Len(messages) : messages[k] = Message(T_LocationFailure, FALSE, FALSE, 1)
  /\ calls[2].pc = "fetching"
  /\ calls[2].input = Q_Routes
  /\ calls[2].prompt.dataLabel.kind = "Filtered"

\* the source text of a segment: its content, between its markers
C18_source(seg) ==
  IF seg.type = "bold" THEN << "*", "*" >> \o seg.content \o << "*", "*" >>
  ELSE IF seg.type = "link"
       THEN << "[" >> \o seg.content \o << "]", "(" >> \o seg.url \o << ")" >>
  ELSE seg.content

C18_isBlank(text, from, to) == \A i \in from..to : trim(<< text[i] >>) = << >>

\* the segments from the k-th on lie in the text from position p on, in
\* order and without overlap, and what lies between two of them, or after
\* the last, is blank text that touches no plain segment
RECURSIVE C18_covers(_, _, _, _)
C18_covers(segments, k, text, p) ==
  IF k > Len(segments) THEN C18_isBlank(text, p, Len(text))
  ELSE \E gap \in 0..(Len(text) + 1 - p) :
         /\ gap > 0 => /\ segments[k].type # "text"
                       /\ k > 1 => segments[k - 1].type # "text"
         /\ C18_isBlank(text, p, p + gap - 1)
         /\ IsPrefix(C18_source(segments[k]), SubSeq(text, p + gap, Len(text)))
         /\ C18_covers(segments, k + 1, text, p + gap + Len(C18_source(segments[k])))

\* some [label](url) marker lies in s
C18_hasLink(s) ==
  \E p, q, r \in 1..Len(s) :
    /\ p + 1 < q /\ q + 2 < r
    /\ s[p] = "[" /\ s[q] = "]" /\ s[q + 1] = "(" /\ s[r] = ")"
    /\ \A i \in (p + 1)..(q - 1) : s[i] # "]"
    /\ \A i \in (q + 2)..(r - 1) : s[i] # ")"

\* some **bold** marker lies in s
C18_hasBold(s) ==
  \E p, q \in 1..Len(s) :
    /\ p + 2 < q /\ q < Len(s)
    /\ s[p] = "*" /\ s[p + 1] = "*" /\ s[q] = "*" /\ s[q + 1] = "*"
    /\ \A i \in (p + 2)..(q - 1) : s[i] # "*"

\* C18: parseMarkdown returns the segments in the order of their positions
\* in the text: a link segment per [label](url) marker, a bold segment per
\* **bold** marker outside the links, the text between them as plain
\* segments that hold no further marker, and no plain segment that is empty
\* once trimmed; the example text gives plain "Visit ", bold "Ebute Ero",
\* plain " via " and the link "this link" to https://x.test.
C18_SegmentsInOrder ==
  (pureIn.fn = "parseMarkdown" /\ pureOut # NULL) =>
    LET segments == pureOut.segments
    IN /\ C18_covers(segments, 1, pureIn.text, 1)
       /\ \A k \in 1..Len(segments) :
            LET seg == segments[k]
            IN /\ seg.type \in { "text", "bold", "link" }
               /\ seg.content # << >>
               /\ seg.type = "text" =>
                    /\ trim(seg.content) # << >>
                    /\ ~C18_hasLink(seg.content)
                    /\ ~C18_hasBold(seg.content)
               /\ seg.type = "bold" => "*" \notin Range(seg.content)
               /\ seg.type = "link" =>
                    /\ "]" \notin Range(seg.content)
                    /\ seg.url # << >>
                    /\ ")" \notin Range(seg.url)
       /\ pureIn.text = M_Example =>
            segments = << textSegment(<< "V", "i", "s", "i", "t", " " >>),
                          boldSegment(<< "E", "b", "u", "t", "e", " ", "E", "r", "o" >>),
                          textSegment(<< " ", "v", "i", "a", " " >>),
                          linkSegment(<< "t", "h", "i", "s", " ", "l", "i", "n", "k" >>,
                                      << "h", "t", "t", "p", "s", ":", "/", "/", "x", ".", "t", "e", "s", "t" >>) >>

\* the example text has been parsed into its four segments
C18_Witness ==
  /\ pureIn.fn = "parseMarkdown"
  /\ pureIn.text = M_Example
  /\ pureOut # NULL
  /\ Len(pureOut.segments) = 4

\* C19: every URL open the application issues, from a link segment of an
\* assistant message or from the "Navigate to Jetty" button, comes after an
\* openability query for the same URL that returned true; a query that
\* returned false is followed by the logged failure and by no open.
C19_OpenOnlyAfterQuery ==
  /\ \A i \in DOMAIN linkLog :
       linkLog[i].op = "openURL" =>
         \E j \in 1..(i - 1) :
           linkLog[j] = linkCall("canOpenURL", linkLog[i].url, "true")
  /\ \A j \in DOMAIN linkLog :
       (linkLog[j].op = "canOpenURL" /\ linkLog[j].result = "false") =>
         /\ j < Len(linkLog)
         /\ linkLog[j + 1] = linkCall("console.error", linkLog[j].url, "none")

\* the stopwords the claim names
C20_stopwords == { << "t", "h", "e" >>, << "a", "n", "d" >>, << "f", "o", "r" >> }
\* every token is a stopword or shorter than 3 characters, none is capitalised
C20_stopwordsAndShortOnly(text) ==
  \A w \in Range(splitWs(text)) :
    /\ w \in C20_stopwords \/ Len(w) < 3
    /\ w # << >> => ~IsUpper(w[1])
\* every token is a single character (or empty), or starts with a lowercase
\* letter and keeps fewer than 3 characters of a-z and 0-9
C20_shortOnly(text) ==
  \A w \in Range(splitWs(text)) :
    \/ Len(w) < 2
    \/ /\ IsLower(w[1])
       /\ Cardinality({ i \in 1..Len(w) : IsLower(w[i]) \/ IsUpper(w[i]) \/ IsDigit(w[i]) }) < 3
\* the scoper takes the sampled path for the keywords, whatever the dataset
C20_sampled(keywords) ==
  \A data \in Datasets :
    LET scoped == filterDataByKeywords(variant, features(data), keywords)
    IN /\ scoped.isSample
       /\ scoped.jetties = C9_firstN(features(data).jetties, 3)
       /\ scoped.routes = C9_firstN(features(data).routes, 3)

C21_purelyNumeric(w) == \A i \in 1..Len(w) : IsDigit(w[i])
C21_RetainedUnlessNumeric ==
  (pureIn.fn = "getKeywords" /\ pureOut # NULL) =>
    \A w \in Range(cleanedWords(pureIn.text)) :
      (w \in Range(specificTerms(variant)) \/ ~C21_purelyNumeric(w)) =>
        \/ w \in Range(pureOut.keywords)
        \/ Len(pureOut.keywords) = MaxKeywords

\* C22: the proper-noun pass of getKeywords adds a token only when its first
\* character is an uppercase letter and it is longer than 1: every keyword
\* is a kept cleaned token or the lowercased form of such a token, and a
\* message that is only a number outside the vocabulary has no keywords.
\* The code does not keep this: a digit or a punctuation mark equals its own
\* uppercase form.
C22_ProperNounsOnly ==
  (pureIn.fn = "getKeywords" /\ pureOut # NULL) =>
    LET kept == SelectSeq(cleanedWords(pureIn.text), LAMBDA w : keepWord(variant, w))
        tokens == splitWs(pureIn.text)
    IN /\ \A k \in Range(pureOut.keywords) :
            \/ k \in Range(kept)
            \/ \E w \in Range(tokens) :
                 Len(w) > 1 /\ IsUpper(w[1]) /\ toLowerCase(w) = k
       /\ ( /\ Len(tokens) = 1
            /\ tokens[1] # << >>
            /\ \A i \in 1..Len(tokens[1]) : IsDigit(tokens[1][i])
            /\ tokens[1] \notin Range(specificTerms(variant)) ) =>
            pureOut.keywords = << >>

\* C23: no failure of a send raises a modal dialog: whatever fails, the
\* location permission being denied included, no Alert.alert dialog has been
\* raised, and the failure is reported by a transcript entry only.  The code
\* does not keep this: a denied permission raises a dialog as well.
C23_NoModalDialog == alerts = 0

\* C24: parseMarkdown never scans a link segment again: the link segments of
\* the result are those of the link pass, labels untouched, and every bold
\* segment comes from a fragment the link pass left plain; for a text that
\* holds [**a**](u) the result has one link segment to u, whose label holds
\* "**a**" verbatim, and no bold segment "a".
C24_isLink(s) == s.type = "link"
C25_answered(i) ==
  \E k \in 1..Len(messages) :
    /\ messages[k].call = i
    /\ ~messages[k].isUser
    /\ ~messages[k].isSystemMessage
C25_EndedSendIsAnswered ==
  \A i \in 1..Len(calls) : calls[i].pc = "done" => C25_answered(i)

\* C26: the entries of the transcript have pairwise distinct identifiers in
\* every reachable state, whatever the timing: the user entry and the
\* permission notice of one send, and a user entry created within a
\* millisecond after the previous reply, included.  The code does not keep
\* this: two entries created in the same millisecond share Date.now().
C26_DistinctIds ==
  \A j, k \in 1..Len(messages) : j # k => messages[j].id # messages[k].id

\* C27: in the jetty filter drawer, whenever every LGA option and both
\* charter options are selected, as when the drawer is mounted and after
\* Reset All Filters, the filtered list handed to the map is the full jetty
\* list, whatever the dataset.  The code does not keep this: a jetty whose
\* charter value is neither "Yes" nor "No" matches no selection.
C27_AllSelectedShowsAll ==
  ( /\ mapShown
    /\ Range(uniqueLGAs(loadedJetties)) \subseteq Range(selectedLGAs)
    /\ Range(charterOptions) \subseteq Range(selectedCharterServices) ) =>
    filteredJetties = loadedJetties

\* C28: on the map screen, once both dataset fetches have succeeded the
\* screen leaves the loading view and shows the map, also when the location
\* permission is denied or no fix is obtained: when fetchData has ended with
\* the datasets loaded, the map is shown.  The code does not keep this: the
\* loading view stays for as long as no location is held.
C28_LoadedShowsMap ==
  fetchPc \in { "denied", "noFix", "watching" } => mapShown

\* C29: parseMarkdown loses no visible text: the contents of the returned
\* segments, concatenated in order, are the text without the syntax of its
\* link and bold markers, that is the contents of all the fragments of the
\* two passes, a blank between two styled segments included.  The code does
\* not keep this: the final filter removes the blank fragments.
RECURSIVE C29_contents(_)
C29_contents(segments) ==
  IF segments = << >> THEN << >>
  ELSE Head(segments).content \o C29_contents(Tail(segments))
C29_NoVisibleTextLost ==
  (pureIn.fn = "parseMarkdown" /\ pureOut # NULL) =>
    C29_contents(pureOut.segments)
      = C29_contents(parsePass("bold", parsePass("link", << textSegment(pureIn.text) >>)))

\* C30: on the map screen, whatever markers, route lines, map and Close
\* button are pressed, the selected jetty and the selected route are never
\* both set, and the details card is shown exactly when one of them is set.
C30_OneSelectionAtMost ==
  /\ ~(selectedJetty # NULL /\ selectedRoute # NULL)
  /\ isModalVisible <=> ((selectedJetty # NULL) # (selectedRoute # NULL))

\* a route line was pressed: its route is selected and its card is shown
C30_Witness ==
  /\ selectedRoute \in MapRoutes
  /\ selectedJetty = NULL
  /\ isModalVisible

=============================================================================
